---- MODULE Spec2Model ----
(***************************************************************************)
(* Model of the LangSmith tool functions                                   *)
(*   src/langsmith_mcp_server/services/tools/traces.py                     *)
(*   src/langsmith_mcp_server/services/tools/datasets.py                   *)
(*                                                                         *)
(* Every tool function is a stateless call: it receives arguments and a    *)
(* client, makes calls on the client and returns a dictionary.  One        *)
(* behaviour of the model is one invocation: the action picks the          *)
(* arguments and the client's scripted responses, runs the whole function  *)
(* and records the calls made on the client and the value returned.        *)
(*                                                                         *)
(* Python values are encoded as tagged tuples <<type, payload...>>:        *)
(*   None            <<"NoneType">>                                        *)
(*   str             <<"str", tokens>>   tokens: the text, as a sequence   *)
(*   int             <<"int", n>>                                          *)
(*   uuid.UUID       <<"UUID", tokens>>                                    *)
(*   datetime        <<"datetime", second, microsecond>>                   *)
(*   list            <<"list", sequence of values>>                        *)
(*   dict            <<"dict", function from key to value>>                *)
(*   object          <<"object", function from attribute name to value>>   *)
(* An attribute the object does not have is outside the function's domain. *)
(*                                                                         *)
(* The example scripts (src/examples) use the same variables: tool is the  *)
(* function or script that runs, pc its position, args its arguments and   *)
(* local variables, client what the remote service answered or holds,      *)
(* calls the requests made, result the value returned (or the exit status  *)
(* of a script) and output the lines printed.                              *)
(***************************************************************************)
EXTENDS Integers, Sequences, FiniteSets, TLC

VARIABLES pc, tool, args, client, calls, result, output

vars == <<pc, tool, args, client, calls, result, output>>

----------------------------------------------------------------------------
(* Bounds *)

MaxNameLen == 3
MaxRuns == 2
MaxChildren == 3
MaxThreadRuns == 2
MaxDatasets == 2
MaxExamples == 2

----------------------------------------------------------------------------
(* Python values *)

None == <<"NoneType">>
Text(tokens) == <<"str", tokens>>
PyInt(n) == <<"int", n>>
UUID(tokens) == <<"UUID", tokens>>
DateTime(sec, usec) == <<"datetime", sec, usec>>
List(seq) == <<"list", seq>>
Dict(items) == <<"dict", items>>
Object(attrs) == <<"object", attrs>>

TypeOf(v) == v[1]
Items(d) == d[2]
Keys(d) == DOMAIN d[2]
EmptyItems == [k \in {} |-> None]

\* hasattr(o, a)
HasAttr(o, a) == a \in DOMAIN o[2]
\* o.a for an attribute the object has
Attr(o, a) == o[2][a]

\* bool(v): None, "", 0, [] and {} are false, everything else is true
Truthy(v) ==
    CASE TypeOf(v) = "NoneType" -> FALSE
      [] TypeOf(v) = "str" -> v[2] # <<>>
      [] TypeOf(v) = "int" -> v[2] # 0
      [] TypeOf(v) = "list" -> v[2] # <<>>
      [] TypeOf(v) = "dict" -> DOMAIN v[2] # {}
      [] OTHER -> TRUE

Digit == [n \in 0..9 |-> CASE n = 0 -> "0" [] n = 1 -> "1" [] n = 2 -> "2"
                           [] n = 3 -> "3" [] n = 4 -> "4" [] n = 5 -> "5"
                           [] n = 6 -> "6" [] n = 7 -> "7" [] n = 8 -> "8"
                           [] n = 9 -> "9"]

\* str(v): the tokens of the text Python's str() gives.  A datetime prints
\* as "<date> <second>" and appends ".<microsecond>" only when the
\* microsecond is not zero; a UUID prints as its text.
StrTokens(v) ==
    CASE TypeOf(v) = "NoneType" -> <<"N", "o", "n", "e">>
      [] TypeOf(v) = "str" -> v[2]
      [] TypeOf(v) = "int" -> <<Digit[v[2]]>>
      [] TypeOf(v) = "UUID" -> v[2]
      [] TypeOf(v) = "datetime" ->
            <<"D", " ", Digit[v[2]]>> \o
            (IF v[3] = 0 THEN <<>> ELSE <<".", Digit[v[3]]>>)

Str(v) == Text(StrTokens(v))

\* datetime.isoformat(): as str() but with "T" between date and time
Isoformat(v) ==
    Text(<<"D", "T", Digit[v[2]]>> \o
         (IF v[3] = 0 THEN <<>> ELSE <<".", Digit[v[3]]>>))

\* The literal text "null"
Null == Text(<<"null">>)

\* f"{prefix}{value}"
Format(prefix, value) == Text(<<prefix>> \o StrTokens(value))

\* {"error": message}
ErrorPayload(message) == Dict([error |-> message])

----------------------------------------------------------------------------
(* Outcomes of a piece of code: it returns a value or raises an exception; *)
(* either way it has made some calls on the client.                        *)

Return(value, made) == [kind |-> "return", value |-> value, calls |-> made]
Raise(exc, made) == [kind |-> "raise", value |-> exc, calls |-> made]

\* Scripted responses of a client method
Returns(value) == <<"return", value>>
Raises(exc) == <<"raise", exc>>

Call(method, kwargs) == [method |-> method, kwargs |-> kwargs]

\* The exception a failing client call raises
RemoteError == Text(<<"remote failure">>)

\* list(None)
NotIterable == Text(<<"'NoneType' object is not iterable">>)

\* try: body / except Exception as e: return {"error": f"{prefix}{str(e)}"}
CatchPropagates(body, prefix) == body

Catch(body, prefix) ==
    IF body.kind = "raise"
    THEN Return(ErrorPayload(Format(prefix, body.value)), body.calls)
    ELSE body

\* project_name == "null" -> None, trace_id == "null" -> None
NullToNoneIdentity(v) == v

NullToNone(v) == IF v = Null THEN None ELSE v

----------------------------------------------------------------------------
(* Argument domains *)

RECURSIVE SeqsUpTo(_, _)
SeqsUpTo(S, n) ==
    IF n = 0 THEN {<<>>}
    ELSE LET shorter == SeqsUpTo(S, n - 1)
         IN shorter \cup {Append(s, x) : s \in shorter, x \in S}

NameTokens == {"a", "/"}
ProjectNames == {None, Null} \cup {Text(s) : s \in SeqsUpTo(NameTokens, MaxNameLen)}
TraceIds == {None, Null, Text(<<>>), Text(<<"t">>)}

----------------------------------------------------------------------------
(* get_project_runs_stats_tool *)

\* str.split("/")
RECURSIVE Split(_)
Split(tokens) ==
    IF tokens = <<>> THEN << <<>> >>
    ELSE IF Head(tokens) = "/" THEN << <<>> >> \o Split(Tail(tokens))
    ELSE LET rest == Split(Tail(tokens))
         IN << <<Head(tokens)>> \o rest[1] >> \o Tail(rest)

\* d.pop(key, None)
PopKeeps(items, key) == items

Pop(items, key) == [k \in (DOMAIN items) \ {key} |-> items[k]]
\* d[key] = value
SetItem(items, key, value) == [k \in (DOMAIN items) \cup {key} |->
                                 IF k = key THEN value ELSE items[k]]

StatsResponses ==
    {Raises(RemoteError), Returns(None),
     Returns(Dict([run_count |-> PyInt(3)])),
     Returns(Dict([run_count |-> PyInt(3), run_facets |-> List(<<>>)]))}

StatsClients == {[get_run_stats |-> r] : r \in StatsResponses}

get_project_runs_stats_body(cl, project_name, trace_id) ==
    IF TypeOf(project_name) # "str"
    THEN Raise(Text(<<"'NoneType' object has no attribute 'split'">>), <<>>)
    ELSE
    LET parts == Split(project_name[2])
        is_qualified == Len(parts) = 2
        actual_project_name == IF is_qualified THEN Text(parts[2]) ELSE project_name
        made == <<Call("get_run_stats",
                       [project_names |-> IF Truthy(project_name)
                                          THEN List(<<actual_project_name>>) ELSE None,
                        trace |-> IF Truthy(trace_id) THEN trace_id ELSE None])>>
        response == cl.get_run_stats
    IN  IF response[1] = "raise" THEN Raise(response[2], made)
        ELSE IF TypeOf(response[2]) # "dict"
        THEN Raise(Text(<<"'NoneType' object has no attribute 'pop'">>), made)
        ELSE Return(Dict(SetItem(Pop(Items(response[2]), "run_facets"),
                                 "project_name", actual_project_name)), made)

get_project_runs_stats_tool(cl, project_name_arg, trace_id_arg) ==
    LET project_name == NullToNone(project_name_arg)
        trace_id == NullToNone(trace_id_arg)
    IN  IF ~Truthy(project_name) /\ ~Truthy(trace_id)
        THEN Return(ErrorPayload(Text(<<"Error: Either project_name or trace_id must be provided.">>)), <<>>)
        ELSE Catch(get_project_runs_stats_body(cl, project_name, trace_id),
                   "Error getting project runs stats: ")

----------------------------------------------------------------------------
(* fetch_trace_tool *)

TraceRun(withThread, err) ==
    Object(LET base == [id |-> UUID(<<"r">>), run_type |-> Text(<<"chain">>),
                        error |-> err, inputs |-> Dict([q |-> Text(<<"hello">>)]),
                        outputs |-> Dict([a |-> Text(<<"hi">>)]),
                        total_tokens |-> PyInt(7), total_cost |-> PyInt(1),
                        feedback_stats |-> None, app_path |-> Text(<<"/o/p">>)]
           IN IF withThread THEN SetItem(base, "thread_id", UUID(<<"th">>)) ELSE base)

TraceRuns == {TraceRun(w, e) : w \in BOOLEAN, e \in {None, Text(<<"run failed">>)}}

TraceResponses ==
    {Raises(RemoteError), Returns(None)} \cup
    {Returns(List(s)) : s \in SeqsUpTo(TraceRuns, MaxRuns)}

TraceClients == {[list_runs |-> r] : r \in TraceResponses}

TraceSelect == <<"inputs", "outputs", "run_type", "id", "error", "total_tokens",
                 "total_cost", "feedback_stats", "app_path", "thread_id">>

\* The fields of the dictionary returned for the run found
TraceFields(run) ==
    [trace_id |-> Str(Attr(run, "id")),
     run_type |-> Attr(run, "run_type"),
     id |-> Str(Attr(run, "id")),
     error |-> Attr(run, "error"),
     inputs |-> Attr(run, "inputs"),
     outputs |-> Attr(run, "outputs"),
     total_tokens |-> Attr(run, "total_tokens"),
     total_cost |-> Str(Attr(run, "total_cost")),
     feedback_stats |-> Attr(run, "feedback_stats"),
     app_path |-> Attr(run, "app_path"),
     thread_id |-> IF HasAttr(run, "thread_id") THEN Str(Attr(run, "thread_id")) ELSE None]

TraceInfoWithoutError(run) ==
    Dict([k \in (DOMAIN TraceFields(run)) \ {"error"} |-> TraceFields(run)[k]])

TraceInfoRawCost(run) ==
    Dict([TraceFields(run) EXCEPT !["total_cost"] = Attr(run, "total_cost")])

TraceInfo(run) == Dict(TraceFields(run))

fetch_trace_body(cl, project_name, trace_id) ==
    LET made == <<Call("list_runs",
                       [project_name |-> IF Truthy(project_name) THEN project_name ELSE None,
                        id |-> IF Truthy(trace_id) THEN List(<<trace_id>>) ELSE None,
                        select |-> TraceSelect,
                        is_root |-> TRUE,
                        limit |-> 1])>>
        response == cl.list_runs
    IN  IF response[1] = "raise" THEN Raise(response[2], made)
        ELSE IF TypeOf(response[2]) # "list" THEN Raise(NotIterable, made)
        ELSE LET runs == response[2][2]
             IN IF runs = <<>>
                THEN Return(ErrorPayload(Format("No runs found for project_name: ",
                                                project_name)), made)
                ELSE Return(TraceInfo(runs[1]), made)

fetch_trace_tool(cl, project_name_arg, trace_id_arg) ==
    LET project_name == NullToNone(project_name_arg)
        trace_id == NullToNone(trace_id_arg)
    IN  IF ~Truthy(project_name) /\ ~Truthy(trace_id)
        THEN Return(ErrorPayload(Text(<<"Error: Either project_name or trace_id must be provided.">>)), <<>>)
        ELSE Catch(fetch_trace_body(cl, project_name, trace_id),
                   "Error fetching last trace: ")

----------------------------------------------------------------------------
(* fetch_run_tool *)

\* Code points of the characters timestamps print with
CodePoint(t) ==
    CASE t = " " -> 32 [] t = "." -> 46 [] t = "0" -> 48 [] t = "1" -> 49
      [] t = "2" -> 50 [] t = "3" -> 51 [] t = "4" -> 52 [] t = "5" -> 53
      [] t = "6" -> 54 [] t = "7" -> 55 [] t = "8" -> 56 [] t = "9" -> 57
      [] t = "D" -> 68 [] t = "T" -> 84

\* a < b on str: lexicographic
RECURSIVE LexLess(_, _)
LexLess(a, b) ==
    IF a = <<>> THEN b # <<>>
    ELSE IF b = <<>> THEN FALSE
    ELSE IF Head(a) = Head(b) THEN LexLess(Tail(a), Tail(b))
    ELSE CodePoint(Head(a)) < CodePoint(Head(b))

\* x.get("start_time", ""): the default applies only when the key is missing
SortKey(x) == IF "start_time" \in Keys(x) THEN Items(x)["start_time"] ELSE Text(<<>>)

\* list.sort(key=...) on str keys: stable, ascending
RECURSIVE InsertByKey(_, _)
InsertByKey(sorted, x) ==
    IF sorted = <<>> THEN <<x>>
    ELSE IF LexLess(SortKey(x)[2], SortKey(Head(sorted))[2])
    THEN <<x>> \o sorted
    ELSE <<Head(sorted)>> \o InsertByKey(Tail(sorted), x)

RECURSIVE SortByKey(_)
SortByKey(list) ==
    IF list = <<>> THEN <<>>
    ELSE InsertByKey(SortByKey(SubSeq(list, 1, Len(list) - 1)), list[Len(list)])

\* Comparing None with anything raises TypeError; a sort of two or more
\* elements compares every element at least once
SortRaises(list) ==
    /\ Len(list) >= 2
    /\ \E i \in 1..Len(list) : TypeOf(SortKey(list[i])) # "str"

TypeErrorCompare == Text(<<"'<' not supported between instances of 'NoneType' and 'str'">>)

\* The elements of list, in the order the ranks give them: what a sort that
\* raised half-way leaves behind is some permutation of the list
RECURSIVE Arrange(_, _, _)
Arrange(list, ranks, r) ==
    IF r > Len(ranks) THEN <<>>
    ELSE LET i == CHOOSE j \in 1..Len(ranks) : ranks[j] = r
         IN (IF i <= Len(list) THEN <<list[i]>> ELSE <<>>) \o Arrange(list, ranks, r + 1)

Rankings == {f \in [1..MaxChildren -> 1..MaxChildren] :
                \A i, j \in 1..MaxChildren : i # j => f[i] # f[j]}

RunIds == {None, Text(<<>>), Null, Text(<<"r">>)}

Times == {DateTime(0, 0), DateTime(0, 5), DateTime(1, 0), DateTime(1, 5)}

\* run.<attr> if hasattr(run, "<attr>") else <default>
AttrOr(o, a, default) == IF HasAttr(o, a) THEN Attr(o, a) ELSE default
\* str(run.<attr>) if hasattr(run, "<attr>") else None
StrAttrOrNone(o, a) == IF HasAttr(o, a) THEN Str(Attr(o, a)) ELSE None

\* Runs as the client returns them.  Attributes the code reads without
\* hasattr() (id, name, run_type, inputs, outputs, error) are always there;
\* the others are there on a full run and missing on a bare one.
BareRun(id, name) ==
    [id |-> UUID(id), name |-> Text(<<name>>), run_type |-> Text(<<"chain">>),
     inputs |-> Dict([q |-> Text(<<"hello">>)]),
     outputs |-> Dict([a |-> Text(<<"hi">>)]), error |-> None]

Extras ==
    [status |-> Text(<<"success">>), end_time |-> DateTime(1, 5), latency |-> PyInt(2),
     total_tokens |-> PyInt(7), total_cost |-> PyInt(1)]

MainExtras ==
    [start_time |-> DateTime(0, 0), prompt_tokens |-> PyInt(3),
     completion_tokens |-> PyInt(4), prompt_cost |-> PyInt(1),
     completion_cost |-> PyInt(0), tags |-> List(<<Text(<<"prod">>)>>),
     trace_id |-> UUID(<<"t">>)]

MainRun(full, parent) ==
    Object((IF full THEN Extras @@ MainExtras ELSE EmptyItems) @@
           (IF parent = "absent" THEN EmptyItems
            ELSE [parent_run_id |-> IF parent = "none" THEN None ELSE UUID(<<"p">>)]) @@
           BareRun(<<"r">>, "main"))

MainRuns == {MainRun(TRUE, "uuid"), MainRun(TRUE, "none"), MainRun(FALSE, "absent")}

\* A listed run: the parent is absent, None or a UUID; the start time is
\* absent or a datetime
ChildShapes ==
    {[parent |-> UUID(<<"r">>), start |-> t] : t \in Times \cup {None}} \cup
    {[parent |-> p, start |-> DateTime(0, 0)] : p \in {None, Text(<<"absent">>), UUID(<<"x">>)}}

ChildRun(i, shape, full) ==
    Object((IF full THEN Extras ELSE EmptyItems) @@
           (IF shape.parent = Text(<<"absent">>) THEN EmptyItems
            ELSE [parent_run_id |-> shape.parent]) @@
           (IF shape.start = None THEN EmptyItems ELSE [start_time |-> shape.start]) @@
           BareRun(<<"c", Digit[i]>>, "step"))

Listing(shapes, full) == List([i \in 1..Len(shapes) |-> ChildRun(i, shapes[i], full)])

RunClients ==
    {[read_run |-> r, list_runs |-> Raises(RemoteError)] :
        r \in {Raises(RemoteError), Returns(None)}} \cup
    {[read_run |-> Returns(run), list_runs |-> l] :
        run \in MainRuns, l \in {Raises(RemoteError), Returns(None)}} \cup
    {[read_run |-> Returns(run), list_runs |-> Returns(Listing(shapes, HasAttr(run, "status")))] :
        run \in MainRuns, shapes \in SeqsUpTo(ChildShapes, MaxChildren)}

ChildSelect == <<"id", "name", "run_type", "status", "start_time", "end_time", "latency",
                 "error", "parent_run_id", "inputs", "outputs", "total_tokens", "total_cost">>

RunInfo(run) ==
    [id |-> Str(Attr(run, "id")),
     name |-> Attr(run, "name"),
     run_type |-> Attr(run, "run_type"),
     status |-> AttrOr(run, "status", None),
     start_time |-> StrAttrOrNone(run, "start_time"),
     end_time |-> StrAttrOrNone(run, "end_time"),
     latency_ms |-> AttrOr(run, "latency", None),
     inputs |-> Attr(run, "inputs"),
     outputs |-> Attr(run, "outputs"),
     error |-> Attr(run, "error"),
     total_tokens |-> AttrOr(run, "total_tokens", None),
     prompt_tokens |-> AttrOr(run, "prompt_tokens", None),
     completion_tokens |-> AttrOr(run, "completion_tokens", None),
     total_cost |-> StrAttrOrNone(run, "total_cost"),
     prompt_cost |-> StrAttrOrNone(run, "prompt_cost"),
     completion_cost |-> StrAttrOrNone(run, "completion_cost"),
     tags |-> AttrOr(run, "tags", List(<<>>)),
     trace_id |-> StrAttrOrNone(run, "trace_id"),
     parent_run_id |-> IF HasAttr(run, "parent_run_id") /\ Truthy(Attr(run, "parent_run_id"))
                       THEN Str(Attr(run, "parent_run_id")) ELSE None]

ChildInfo(c) ==
    Dict([id |-> Str(Attr(c, "id")),
          name |-> Attr(c, "name"),
          run_type |-> Attr(c, "run_type"),
          status |-> AttrOr(c, "status", None),
          start_time |-> StrAttrOrNone(c, "start_time"),
          end_time |-> StrAttrOrNone(c, "end_time"),
          latency_ms |-> AttrOr(c, "latency", None),
          error |-> Attr(c, "error"),
          inputs |-> Attr(c, "inputs"),
          outputs |-> Attr(c, "outputs"),
          total_tokens |-> AttrOr(c, "total_tokens", None),
          total_cost |-> StrAttrOrNone(c, "total_cost")])

\* hasattr(c, "parent_run_id") and c.parent_run_id and str(c.parent_run_id) == run_id
IsDirectChild(c, run_id) ==
    /\ HasAttr(c, "parent_run_id")
    /\ Truthy(Attr(c, "parent_run_id"))
    /\ Str(Attr(c, "parent_run_id")) = run_id

\* [ChildInfo(c) for c in children if IsDirectChild(c, run_id)]
RECURSIVE DirectChildren(_, _)
DirectChildren(children, run_id) ==
    IF children = <<>> THEN <<>>
    ELSE (IF IsDirectChild(Head(children), run_id)
          THEN <<ChildInfo(Head(children))>> ELSE <<>>)
         \o DirectChildren(Tail(children), run_id)

\* The inner try block: child_runs as it stands when the block is left, and
\* the exception that left it (None when it ran to its end)
fetch_child_runs(cl, run, run_id, ranks) ==
    LET response == cl.list_runs
    IN  IF response[1] = "raise" THEN [child_runs |-> <<>>, exc |-> response[2]]
        ELSE IF TypeOf(response[2]) # "list" THEN [child_runs |-> <<>>, exc |-> NotIterable]
        ELSE LET child_runs == DirectChildren(response[2][2], run_id)
             IN IF SortRaises(child_runs)
                THEN [child_runs |-> Arrange(child_runs, ranks, 1), exc |-> TypeErrorCompare]
                ELSE [child_runs |-> SortByKey(child_runs), exc |-> None]

\* Leaving the inner try: its except clause notes the failure in
\* child_runs_error; then child_runs and child_run_count are filled in and
\* run_info is returned
FinishRunInfoNoInnerTry(run, inner, made) ==
    IF inner.exc # None THEN Raise(inner.exc, made)
    ELSE Return(Dict(SetItem(SetItem(RunInfo(run), "child_runs", List(inner.child_runs)),
                             "child_run_count", PyInt(Len(inner.child_runs)))), made)

FinishRunInfo(run, inner, made) ==
    LET run_info == IF inner.exc = None THEN RunInfo(run)
                    ELSE SetItem(RunInfo(run), "child_runs_error",
                                 Format("Could not fetch child runs: ", inner.exc))
    IN  Return(Dict(SetItem(SetItem(run_info, "child_runs", List(inner.child_runs)),
                            "child_run_count", PyInt(Len(inner.child_runs)))), made)

fetch_run_bodyRetrying(cl, run_id, ranks) ==
    LET read == <<Call("read_run", [run_id |-> run_id])>>
        response == cl.read_run
    IN  IF response[1] = "raise" THEN Raise(response[2], read \o read)
        ELSE IF ~Truthy(response[2])
        THEN Return(ErrorPayload(Format("No run found with ID: ", run_id)), read)
        ELSE
        LET run == response[2]
            made == read \o <<Call("list_runs",
                                   [trace_id |-> StrAttrOrNone(run, "trace_id"),
                                    select |-> ChildSelect])>>
        IN  FinishRunInfo(run, fetch_child_runs(cl, run, run_id, ranks), made)

fetch_run_body(cl, run_id, ranks) ==
    LET read == <<Call("read_run", [run_id |-> run_id])>>
        response == cl.read_run
    IN  IF response[1] = "raise" THEN Raise(response[2], read)
        ELSE IF ~Truthy(response[2])
        THEN Return(ErrorPayload(Format("No run found with ID: ", run_id)), read)
        ELSE
        LET run == response[2]
            made == read \o <<Call("list_runs",
                                   [trace_id |-> StrAttrOrNone(run, "trace_id"),
                                    select |-> ChildSelect])>>
        IN  FinishRunInfo(run, fetch_child_runs(cl, run, run_id, ranks), made)

\* run_id == "null" or not run_id
RunIdMissingUnlessNull(run_id) == ~Truthy(run_id)

RunIdMissing(run_id) == run_id = Null \/ ~Truthy(run_id)

fetch_run_tool(cl, run_id, ranks) ==
    IF RunIdMissing(run_id)
    THEN Return(ErrorPayload(Text(<<"Error: run_id must be provided.">>)), <<>>)
    ELSE Catch(fetch_run_body(cl, run_id, ranks), "Error fetching run: ")

----------------------------------------------------------------------------
(* get_thread_history_tool *)

\* a < b on datetime
DateTimeLess(a, b) == a[2] < b[2] \/ (a[2] = b[2] /\ a[3] < b[3])

\* sorted(runs, key=lambda run: run.start_time, reverse=True): stable,
\* descending
RECURSIVE InsertByStartDesc(_, _)
InsertByStartDesc(sorted, x) ==
    IF sorted = <<>> THEN <<x>>
    ELSE IF DateTimeLess(Attr(Head(sorted), "start_time"), Attr(x, "start_time"))
    THEN <<x>> \o sorted
    ELSE <<Head(sorted)>> \o InsertByStartDesc(Tail(sorted), x)

RECURSIVE SortedByStartDesc(_)
SortedByStartDesc(runs) ==
    IF runs = <<>> THEN <<>>
    ELSE InsertByStartDesc(SortedByStartDesc(SubSeq(runs, 1, Len(runs) - 1)), runs[Len(runs)])

Message(role, content) == Dict([role |-> Text(<<role>>), content |-> Text(<<content>>)])

ThreadInputs ==
    {Dict([prompt |-> Text(<<"hello">>)]),
     Dict([messages |-> List(<<Message("user", "hello")>>)]),
     Dict([messages |-> List(<<Message("user", "hello"), Message("assistant", "hi"),
                               Message("user", "again")>>)])}

ThreadOutputs ==
    {None,
     Dict(EmptyItems),
     Dict([choices |-> List(<<Dict([message |-> Message("assistant", "hi")])>>)]),
     Dict([choices |-> List(<<>>)]),
     Dict([choices |-> List(<<Dict([finish_reason |-> Text(<<"stop">>)])>>)]),
     Dict([message |-> Message("assistant", "direct")]),
     Dict([choices |-> List(<<>>), message |-> Message("assistant", "direct")])}

ThreadTimes == {DateTime(0, 5), DateTime(1, 0)}

\* LLM runs of a thread; a run may have no outputs attribute
ThreadRuns ==
    {Object([start_time |-> t, inputs |-> i, outputs |-> o]) :
        t \in ThreadTimes, i \in ThreadInputs, o \in ThreadOutputs} \cup
    {Object([start_time |-> t, inputs |-> i]) : t \in ThreadTimes, i \in ThreadInputs}

ThreadClients ==
    {[list_runs |-> r] : r \in {Raises(RemoteError), Returns(None)}} \cup
    {[list_runs |-> Returns(List(runs))] : runs \in SeqsUpTo(ThreadRuns, MaxThreadRuns)}

ThreadIds == {Text(<<"th">>)}
ThreadProjects == {Text(<<"a">>)}

FilterString(thread_id) ==
    Text(<<"and(in(metadata_key, [\"session_id\",\"conversation_id\",\"thread_id\"]), eq(metadata_value, \"">>
         \o StrTokens(thread_id) \o <<"\"))">>)

\* messages.extend(latest_run.inputs["messages"])
InputMessages(run) ==
    IF HasAttr(run, "inputs") /\ "messages" \in Keys(Attr(run, "inputs"))
    THEN Items(Attr(run, "inputs"))["messages"][2]
    ELSE <<>>

\* The message appended from latest_run.outputs, if any
OutputMessages(run) ==
    IF ~HasAttr(run, "outputs") THEN <<>>
    ELSE LET outputs == Attr(run, "outputs")
         IN IF TypeOf(outputs) = "dict" /\ "choices" \in Keys(outputs)
            THEN LET choices == Items(outputs)["choices"]
                 IN IF TypeOf(choices) = "list" /\ Len(choices[2]) > 0
                       /\ "message" \in Keys(choices[2][1])
                    THEN <<Items(choices[2][1])["message"]>>
                    ELSE <<>>
            ELSE IF TypeOf(outputs) = "dict" /\ "message" \in Keys(outputs)
            THEN <<Items(outputs)["message"]>>
            ELSE <<>>

\* runs[0] after the sort
LatestOldest(runs) == SortedByStartDesc(runs)[Len(runs)]

Latest(runs) == SortedByStartDesc(runs)[1]

\* if not messages: the "No messages found" payload, else {"result": messages}
ThreadResultUnchecked(messages, thread_id) == Dict([result |-> List(messages)])

ThreadResult(messages, thread_id) ==
    IF messages = <<>>
    THEN ErrorPayload(Format("No messages found in the run for thread ", thread_id))
    ELSE Dict([result |-> List(messages)])

get_thread_history_body(cl, thread_id, project_name) ==
    LET made == <<Call("list_runs",
                       [project_name |-> project_name,
                        filter |-> FilterString(thread_id),
                        run_type |-> Text(<<"llm">>)])>>
        response == cl.list_runs
    IN  IF response[1] = "raise" THEN Raise(response[2], made)
        ELSE IF TypeOf(response[2]) # "list" THEN Raise(NotIterable, made)
        ELSE LET runs == response[2][2]
             IN IF runs = <<>>
                THEN Return(ErrorPayload(Text(<<"No runs found for thread ">> \o StrTokens(thread_id)
                                              \o <<" in project ">> \o StrTokens(project_name))), made)
                ELSE LET latest_run == Latest(runs)
                         messages == InputMessages(latest_run) \o OutputMessages(latest_run)
                     IN Return(ThreadResult(messages, thread_id), made)

get_thread_history_tool(cl, thread_id, project_name) ==
    Catch(get_thread_history_body(cl, thread_id, project_name),
          "Error fetching thread history: ")

----------------------------------------------------------------------------
(* list_datasets_tool and list_examples_tool *)

\* An argument the caller leaves out takes the default of the signature
Omitted == <<"omitted">>
Default(arg, default) == IF arg = Omitted THEN default ELSE arg

\* kwargs: the supplied parameters that are not None
KwargsAll(supplied) == supplied

Kwargs(supplied) == [k \in {p \in DOMAIN supplied : supplied[p] # None} |-> supplied[k]]

DatasetAttrs == <<"id", "name", "inputs_schema_definition", "outputs_schema_definition",
                  "description", "data_type", "example_count", "session_count",
                  "created_at", "modified_at", "last_session_start_time">>

ExampleAttrs == <<"id", "inputs", "outputs", "metadata", "created_at", "modified_at",
                  "dataset_id">>

\* getattr(obj, attr, None), with created_at and modified_at as isoformat
FormatAttrStr(obj, attr) ==
    LET value == AttrOr(obj, attr, None)
    IN  IF attr \in {"created_at", "modified_at"} /\ value # None
        THEN Str(value) ELSE value

FormatAttr(obj, attr) ==
    LET value == AttrOr(obj, attr, None)
    IN  IF attr \in {"created_at", "modified_at"} /\ value # None
        THEN Isoformat(value) ELSE value

FormattedPresentOnly(obj, attrs) ==
    Dict([a \in {attrs[i] : i \in 1..Len(attrs)} \cap DOMAIN obj[2] |-> FormatAttr(obj, a)])

Formatted(obj, attrs) ==
    Dict([a \in {attrs[i] : i \in 1..Len(attrs)} |-> FormatAttr(obj, a)])

FormattedList(objs, attrs) == [i \in 1..Len(objs) |-> Formatted(objs[i], attrs)]

DatasetObjects ==
    {Object([id |-> UUID(<<"d">>), name |-> Text(<<"ds">>),
             inputs_schema_definition |-> None, outputs_schema_definition |-> None,
             description |-> Text(<<"about">>), data_type |-> Text(<<"kv">>),
             example_count |-> PyInt(2), session_count |-> PyInt(1),
             created_at |-> c, modified_at |-> m,
             last_session_start_time |-> DateTime(1, 5)]) :
        c \in {DateTime(0, 0), DateTime(0, 5)}, m \in {DateTime(1, 0), None}} \cup
    {Object([id |-> UUID(<<"d">>), name |-> Text(<<"ds">>), created_at |-> DateTime(0, 5)])}

ExampleObjects ==
    {Object([id |-> UUID(<<"e">>), inputs |-> Dict([q |-> Text(<<"hello">>)]),
             outputs |-> Dict([a |-> Text(<<"hi">>)]), metadata |-> None,
             created_at |-> DateTime(0, 5), modified_at |-> m,
             dataset_id |-> UUID(<<"d">>)]) : m \in {DateTime(1, 0), None}} \cup
    {Object([id |-> UUID(<<"e">>), inputs |-> Dict([q |-> Text(<<"hello">>)])])}

DatasetClients ==
    {[list_datasets |-> r] : r \in {Raises(RemoteError), Returns(None)}} \cup
    {[list_datasets |-> Returns(List(ds))] : ds \in SeqsUpTo(DatasetObjects, MaxDatasets)}

ExampleClients ==
    {[list_examples |-> r] : r \in {Raises(RemoteError), Returns(None)}} \cup
    {[list_examples |-> Returns(List(es))] : es \in SeqsUpTo(ExampleObjects, MaxExamples)}

DefaultLimit == 20

list_datasets_body(cl, supplied) ==
    LET made == <<Call("list_datasets", Kwargs(supplied))>>
        response == cl.list_datasets
    IN  IF response[1] = "raise" THEN Raise(response[2], made)
        ELSE IF TypeOf(response[2]) # "list" THEN Raise(NotIterable, made)
        ELSE LET formatted_datasets == FormattedList(response[2][2], DatasetAttrs)
             IN Return(Dict([datasets |-> List(formatted_datasets),
                             total_count |-> PyInt(Len(formatted_datasets))]), made)

list_datasets_tool(cl, dataset_ids, data_type, dataset_name, dataset_name_contains, metadata, limit) ==
    Catch(list_datasets_body(cl,
              [dataset_ids |-> Default(dataset_ids, None),
               data_type |-> Default(data_type, None),
               dataset_name |-> Default(dataset_name, None),
               dataset_name_contains |-> Default(dataset_name_contains, None),
               metadata |-> Default(metadata, None),
               limit |-> Default(limit, PyInt(DefaultLimit))]),
          "Error fetching datasets: ")

list_examples_body(cl, supplied) ==
    LET made == <<Call("list_examples", Kwargs(supplied))>>
        response == cl.list_examples
    IN  IF response[1] = "raise" THEN Raise(response[2], made)
        ELSE IF TypeOf(response[2]) # "list" THEN Raise(NotIterable, made)
        ELSE LET formatted_examples == FormattedList(response[2][2], ExampleAttrs)
             IN Return(Dict([examples |-> List(formatted_examples),
                             total_count |-> PyInt(Len(formatted_examples))]), made)

list_examples_tool(cl, dataset_id, dataset_name, limit, offset) ==
    Catch(list_examples_body(cl,
              [dataset_id |-> Default(dataset_id, None),
               dataset_name |-> Default(dataset_name, None),
               limit |-> Default(limit, None),
               offset |-> Default(offset, None)]),
          "Error fetching examples: ")

----------------------------------------------------------------------------
(* The state machine *)

\* The function's outcome becomes the state: it returned a value, or an
\* exception left it
Finish(outcome) ==
    /\ pc' = IF outcome.kind = "raise" THEN "raised" ELSE "returned"
    /\ result' = outcome.value
    /\ calls' = outcome.calls
    /\ output' = output

Init ==
    /\ pc = "ready"
    /\ tool = "none"
    /\ args = EmptyItems
    /\ client = EmptyItems
    /\ calls = <<>>
    /\ result = None
    /\ output = <<>>

FetchTraceTool ==
    /\ pc = "ready"
    /\ \E project_name \in ProjectNames, trace_id \in TraceIds, cl \in TraceClients :
          /\ tool' = "fetch_trace_tool"
          /\ args' = [project_name |-> project_name, trace_id |-> trace_id]
          /\ client' = cl
          /\ Finish(fetch_trace_tool(cl, project_name, trace_id))

GetProjectRunsStatsTool ==
    /\ pc = "ready"
    /\ \E project_name \in ProjectNames, trace_id \in TraceIds, cl \in StatsClients :
          /\ tool' = "get_project_runs_stats_tool"
          /\ args' = [project_name |-> project_name, trace_id |-> trace_id]
          /\ client' = cl
          /\ Finish(get_project_runs_stats_tool(cl, project_name, trace_id))

\* ranks: the order a failing sort leaves the list in
FetchRunTool ==
    /\ pc = "ready"
    /\ \E run_id \in RunIds, cl \in RunClients, ranks \in Rankings :
          /\ tool' = "fetch_run_tool"
          /\ args' = [run_id |-> run_id]
          /\ client' = cl
          /\ Finish(fetch_run_tool(cl, run_id, ranks))

GetThreadHistoryTool ==
    /\ pc = "ready"
    /\ \E thread_id \in ThreadIds, project_name \in ThreadProjects, cl \in ThreadClients :
          /\ tool' = "get_thread_history_tool"
          /\ args' = [thread_id |-> thread_id, project_name |-> project_name]
          /\ client' = cl
          /\ Finish(get_thread_history_tool(cl, thread_id, project_name))

ListDatasetsTool ==
    /\ pc = "ready"
    /\ \E dataset_ids \in {Omitted, None, List(<<Text(<<"d">>)>>)},
          data_type \in {Omitted, Text(<<"kv">>)},
          dataset_name \in {Omitted, Text(<<"ds">>)},
          dataset_name_contains \in {Omitted, Text(<<"d">>)},
          metadata \in {Omitted, Dict([team |-> Text(<<"a">>)])},
          limit \in {Omitted, None, PyInt(5)},
          cl \in DatasetClients :
          /\ tool' = "list_datasets_tool"
          /\ args' = [dataset_ids |-> dataset_ids, data_type |-> data_type,
                      dataset_name |-> dataset_name,
                      dataset_name_contains |-> dataset_name_contains,
                      metadata |-> metadata, limit |-> limit]
          /\ client' = cl
          /\ Finish(list_datasets_tool(cl, dataset_ids, data_type, dataset_name,
                                       dataset_name_contains, metadata, limit))

ListExamplesTool ==
    /\ pc = "ready"
    /\ \E dataset_id \in {Omitted, Text(<<"d">>)},
          dataset_name \in {Omitted, None, Text(<<"ds">>)},
          limit \in {Omitted, PyInt(5)},
          offset \in {Omitted, None, PyInt(0), PyInt(2)},
          cl \in ExampleClients :
          /\ tool' = "list_examples_tool"
          /\ args' = [dataset_id |-> dataset_id, dataset_name |-> dataset_name,
                      limit |-> limit, offset |-> offset]
          /\ client' = cl
          /\ Finish(list_examples_tool(cl, dataset_id, dataset_name, limit, offset))

Next ==
    \/ ListDatasetsTool
    \/ ListExamplesTool
    \/ GetThreadHistoryTool
    \/ FetchTraceTool
    \/ FetchRunTool
    \/ GetProjectRunsStatsTool

Spec == Init /\ [][Next]_vars

----------------------------------------------------------------------------
(* src/examples/test_rules.py *)

MaxRules == 2

HttpOk == 200
RequestTimeout == 30

Bool(b) == <<"bool", b>>

\* str(n) for a natural number
RECURSIVE DecimalTokens(_)
DecimalTokens(n) ==
    IF n < 10 THEN <<Digit[n]>> ELSE DecimalTokens(n \div 10) \o <<Digit[n % 10]>>

\* The rule records the service may list; display_name may be missing
RuleRecords ==
    {Dict([id |-> Text(<<"r1">>), display_name |-> Text(<<"prompt-injection">>)]),
     Dict([id |-> Text(<<"r2">>), display_name |-> Text(<<"prompt-injection-2">>)]),
     Dict([id |-> Text(<<"r3">>)])}

\* What requests.get does: it raises, or it returns a response with a
\* status code, a body text and the body as JSON (None when the body is not
\* JSON)
HttpResponses ==
    {Raises(RemoteError)} \cup
    {Returns([status_code |-> c, text |-> Text(<<"denied">>), json |-> None]) :
        c \in {204, 404, 500}} \cup
    {Returns([status_code |-> HttpOk, text |-> Text(<<"<html>">>), json |-> None])} \cup
    {Returns([status_code |-> HttpOk, text |-> Text(<<"[...]">>), json |-> List(rules)]) :
        rules \in SeqsUpTo(RuleRecords, MaxRules)}

\* resp.status_code != 200
StatusFailedOutside2xx(status_code) == status_code \div 100 # 2

StatusFailed(status_code) == status_code # HttpOk

\* list_rules(params): one GET; a status other than 200 raises RuntimeError,
\* otherwise the parsed body is returned
list_rules(params, response) ==
    LET made == <<Call("requests.get",
                       [url |-> Text(<<"https://api.smith.langchain.com",
                                       "/api/v1/runs/rules">>),
                        headers |-> Dict("X-API-Key" :> Text(<<"api_key">>)),
                        params |-> IF Truthy(params) THEN params ELSE Dict(EmptyItems),
                        timeout |-> RequestTimeout])>>
    IN  IF response[1] = "raise" THEN Raise(response[2], made)
        ELSE LET resp == response[2]
             IN IF StatusFailed(resp.status_code)
                THEN Raise(Text(<<"List rules failed: ">> \o DecimalTokens(resp.status_code)
                                \o <<" ">> \o StrTokens(resp.text)), made)
                ELSE IF resp.json = None
                THEN Raise(Text(<<"Expecting value: line 1 column 1 (char 0)">>), made)
                ELSE Return(resp.json, made)

\* json.dumps(rule, indent=2)
JsonDumps(rule) ==
    <<"{\"id\": \"">> \o StrTokens(Items(rule)["id"]) \o <<"\"">> \o
    (IF "display_name" \in Keys(rule)
     THEN <<", \"display_name\": \"">> \o StrTokens(Items(rule)["display_name"]) \o <<"\"">>
     ELSE <<>>) \o <<"}">>

\* What get_rule_by_id does with the listing: nothing found is printed and
\* gives None, else the first rule is printed and returned
SelectRuleUnchecked(rule_id, rules) ==
    IF rules[2] = <<>>
    THEN [kind |-> "raise", value |-> Text(<<"list index out of range">>), printed |-> <<>>]
    ELSE [kind |-> "return", value |-> rules[2][1],
          printed |-> <<Text(<<"Rule details:\n">> \o JsonDumps(rules[2][1]))>>]

SelectRule(rule_id, rules) ==
    IF ~Truthy(rules)
    THEN [kind |-> "return", value |-> None,
          printed |-> <<Format("No rule found with id: ", rule_id)>>]
    ELSE [kind |-> "return", value |-> rules[2][1],
          printed |-> <<Text(<<"Rule details:\n">> \o JsonDumps(rules[2][1]))>>]

\* get_rule_by_id(rule_id): its outcome, the requests it made and the lines
\* it printed
get_rule_by_id(rule_id, response) ==
    LET listed == list_rules(Dict([id |-> List(<<rule_id>>)]), response)
    IN  IF listed.kind = "raise"
        THEN [kind |-> "raise", value |-> listed.value, calls |-> listed.calls,
              printed |-> <<>>]
        ELSE LET selected == SelectRule(rule_id, listed.value)
             IN [kind |-> selected.kind, value |-> selected.value, calls |-> listed.calls,
                 printed |-> selected.printed]

\* A call of list_rules
ListRules ==
    /\ pc = "ready"
    /\ \E params \in {None, Dict([name_contains |-> Text(<<"prompt-injection">>)])},
          response \in HttpResponses :
          /\ tool' = "list_rules"
          /\ args' = [params |-> params]
          /\ client' = <<response>>
          /\ Finish(list_rules(params, response))

\* A call of get_rule_by_id
GetRuleById ==
    /\ pc = "ready"
    /\ \E rule_id \in {Text(<<"abc123">>), Text(<<"r1">>)}, response \in HttpResponses :
          LET outcome == get_rule_by_id(rule_id, response)
          IN  /\ tool' = "get_rule_by_id"
              /\ args' = [rule_id |-> rule_id]
              /\ client' = <<response>>
              /\ pc' = IF outcome.kind = "raise" THEN "raised" ELSE "returned"
              /\ result' = outcome.value
              /\ calls' = outcome.calls
              /\ output' = outcome.printed

\* An exception nothing catches ends the script: the traceback is printed
\* after what was printed before, and the exit status is 1
Uncaught(printed, exc) ==
    /\ pc' = "exited"
    /\ result' = PyInt(1)
    /\ output' = Append(printed,
                        Text(<<"Traceback (most recent call last): ">> \o StrTokens(exc)))

\* The script starts: the heading is printed and the listing is requested
\* (for r in list_rules(params=params))
MainListRules ==
    /\ pc = "ready"
    /\ \E response \in HttpResponses :
          LET listed == list_rules(Dict([name_contains |-> Text(<<"prompt-injection">>)]),
                                   response)
              heading == <<Text(<<"=== All rules (id :: name) ===">>)>>
          IN  /\ tool' = "test_rules.__main__"
              /\ client' = <<response>>
              /\ calls' = listed.calls
              /\ IF listed.kind = "raise"
                 THEN Uncaught(heading, listed.value) /\ args' = [i |-> 0]
                 ELSE /\ pc' = "loop"
                      /\ args' = [i |-> 0, rules |-> listed.value]
                      /\ output' = heading
                      /\ result' = result

\* The body of the loop: r is bound to the next rule, which is printed
MainPrintRule ==
    /\ pc = "loop"
    /\ args.i < Len(args.rules[2])
    /\ LET r == args.rules[2][args.i + 1]
       IN  /\ args' = [i |-> args.i + 1, rules |-> args.rules, r |-> r]
           /\ output' = Append(output,
                 Text(StrTokens(Items(r)["id"]) \o <<" :: ">> \o
                      StrTokens(IF "display_name" \in Keys(r) THEN Items(r)["display_name"]
                                ELSE None)))
    /\ UNCHANGED <<pc, tool, client, calls, result>>

\* After the loop: rule_id = r['id'], with r the loop variable
MainSelectRule ==
    /\ pc = "loop"
    /\ args.i = Len(args.rules[2])
    /\ IF "r" \notin DOMAIN args
       THEN Uncaught(output, Text(<<"name 'r' is not defined">>)) /\ args' = args
       ELSE /\ args' = [i |-> args.i, rules |-> args.rules, r |-> args.r,
                        rule_id |-> Items(args.r)["id"]]
            /\ pc' = "get"
            /\ output' = Append(output, Text(<<"\n=== Selected rule ===">>))
            /\ result' = result
    /\ UNCHANGED <<tool, client, calls>>

\* get_rule_by_id(rule_id), then the last heading is printed (the creation
\* call is commented out) and the script ends
MainGetRule ==
    /\ pc = "get"
    /\ \E response \in HttpResponses :
          LET outcome == get_rule_by_id(args.rule_id, response)
          IN  /\ client' = Append(client, response)
              /\ calls' = calls \o outcome.calls
              /\ IF outcome.kind = "raise"
                 THEN Uncaught(output, outcome.value)
                 ELSE /\ pc' = "exited"
                      /\ result' = PyInt(0)
                      /\ output' = output \o outcome.printed \o
                                   <<Text(<<"\n=== Creating prompt-injection-2 ===">>)>>
    /\ UNCHANGED <<tool, args>>

RulesNext ==
    \/ ListRules
    \/ GetRuleById
    \/ MainListRules
    \/ MainPrintRule
    \/ MainSelectRule
    \/ MainGetRule

RulesSpec == Init /\ [][RulesNext]_vars

----------------------------------------------------------------------------
(* src/examples/datasets_annotation.py: test_datasets_operations *)

MaxStored == 2
MaxVersions == 1
MaxSplits == 1

ListLimit == 5

\* uuid.uuid4().hex: 32 hexadecimal digits
Uuid4Hex ==
    LET blocks == {<<"0", "a", "1", "b", "2", "c", "3", "d">>,
                   <<"d", "e", "a", "d", "b", "e", "e", "f">>}
    IN  {a \o b \o a \o b : a \in blocks, b \in blocks}

\* f"test-dataset-{uuid.uuid4().hex[:8]}"
ScratchName(hex) == Text(<<"test-dataset-">> \o SubSeq(hex, 1, 8))

StoredDataset(id, name, description, data_type, created_at) ==
    Object([id |-> id, name |-> name, description |-> description,
            data_type |-> data_type, created_at |-> created_at])

\* Datasets the service may hold before the script runs; one of them already
\* has a name the script may pick
StoredBefore ==
    {StoredDataset(UUID(<<"d1">>), Text(<<"alpha">>), Text(<<"first">>),
                   Text(<<"kv">>), DateTime(0, 0)),
     StoredDataset(UUID(<<"d2">>),
                   ScratchName(<<"0", "a", "1", "b", "2", "c", "3", "d">>),
                   None, Text(<<"kv">>), DateTime(0, 5)),
     StoredDataset(UUID(<<"d3">>), Text(<<"beta">>),
                   Text(<<"Test dataset created by API testing script">>),
                   Text(<<"chat">>), DateTime(1, 0))}

\* The service holds a dataset of that name
StoreHasName(store, name) == \E i \in 1..Len(store) : Attr(store[i], "name") = name

\* [x.<attr> for x in seq]
AttrOfEach(seq, a) == [i \in 1..Len(seq) |-> Attr(seq[i], a)]

\* Every element has the attribute (reading it otherwise raises
\* AttributeError)
HasAttrs(seq, a) == \A i \in 1..Len(seq) : TypeOf(seq[i]) = "object" /\ HasAttr(seq[i], a)

\* results[phase]
Phase(results, phase) == Items(Items(results)[phase])

\* results[phase][key] = value
WithPhase(results, phase, key, value) ==
    Dict(SetItem(Items(results), phase, Dict(SetItem(Phase(results, phase), key, value))))

\* The sub-result of the read step
ReadSubResultDescription(read_dataset) ==
    Dict([success |-> Bool(TRUE),
          dataset_id |-> Str(Attr(read_dataset, "id")),
          dataset_name |-> Attr(read_dataset, "description"),
          description |-> Attr(read_dataset, "description"),
          data_type |-> Attr(read_dataset, "data_type"),
          created_at |-> Str(Attr(read_dataset, "created_at"))])

ReadSubResult(read_dataset) ==
    Dict([success |-> Bool(TRUE),
          dataset_id |-> Str(Attr(read_dataset, "id")),
          dataset_name |-> Attr(read_dataset, "name"),
          description |-> Attr(read_dataset, "description"),
          data_type |-> Attr(read_dataset, "data_type"),
          created_at |-> Str(Attr(read_dataset, "created_at"))])

\* except Exception as e, at the end of a phase: the error is recorded
\* under "error" and printed, and the results are returned
PhaseFailedForgetting(phase, testing, failed, error, e) ==
    /\ result' = Dict(SetItem(Items(result), phase, Dict([error |-> Format(failed, e)])))
    /\ output' = output \o <<Text(<<testing>>), Format(error, e)>>
    /\ pc' = "returned"

PhaseFailed(phase, testing, failed, error, e) ==
    /\ result' = WithPhase(result, phase, "error", Format(failed, e))
    /\ output' = output \o <<Text(<<testing>>), Format(error, e)>>
    /\ pc' = "returned"

\* A step succeeded: its sub-result is recorded and its message printed
PhaseStep(phase, testing, key, value, printed, next) ==
    /\ result' = WithPhase(result, phase, key, value)
    /\ output' = output \o <<Text(<<testing>>), Text(printed)>>
    /\ pc' = next

\* except Exception as e of test_datasets_operations
DatasetsFailed(testing, e) ==
    PhaseFailed("datasets", testing, "Dataset operations failed: ",
                "Dataset operations error: ", e)

\* The function is called (results = {"datasets": {}}) and
\* 1. lists the existing datasets
DatasetsListExisting ==
    /\ pc = "ready"
    /\ tool' = "test_datasets_operations"
    /\ calls' = <<Call("list_datasets", [limit |-> PyInt(ListLimit)])>>
    /\ \E store \in SeqsUpTo(StoredBefore, MaxStored), fails \in BOOLEAN :
          /\ \A i, j \in 1..Len(store) : i # j => store[i] # store[j]
          /\ client' = [store |-> store]
          /\ LET datasets == SubSeq(store, 1, IF Len(store) < ListLimit THEN Len(store)
                                              ELSE ListLimit)
                 results == Dict([datasets |-> Dict(EmptyItems)])
             IN  IF fails
                 THEN /\ args' = EmptyItems
                      /\ result' = WithPhase(results, "datasets", "error",
                                      Format("Dataset operations failed: ", RemoteError))
                      /\ output' = <<Text(<<"Testing dataset listing...">>),
                                     Format("Dataset operations error: ", RemoteError)>>
                      /\ pc' = "returned"
                 ELSE /\ args' = [datasets |-> List(datasets)]
                      /\ result' = WithPhase(results, "datasets", "list_existing",
                            Dict([count |-> PyInt(Len(datasets)),
                                  dataset_names |-> List(AttrOfEach(datasets, "name"))]))
                      /\ output' = <<Text(<<"Testing dataset listing...">>),
                                     Text(<<"Found ">> \o StrTokens(PyInt(Len(datasets)))
                                          \o <<" existing datasets">>)>>
                      /\ pc' = "create"

\* 2. Create a new dataset
DatasetsCreate ==
    /\ pc = "create"
    /\ \E hex \in Uuid4Hex, fails \in BOOLEAN, now \in {DateTime(1, 0), DateTime(1, 5)} :
          LET dataset_name == ScratchName(hex)
              description == Text(<<"Test dataset created by API testing script">>)
              new_dataset == StoredDataset(UUID(<<"n1">>), dataset_name, description,
                                           Text(<<"kv">>), now)
              named == SetItem(args, "dataset_name", dataset_name)
          IN  /\ calls' = Append(calls, Call("create_dataset",
                     [dataset_name |-> dataset_name, description |-> description,
                      data_type |-> Text(<<"kv">>)]))
              /\ IF fails \/ StoreHasName(client.store, dataset_name)
                 THEN /\ DatasetsFailed("Testing dataset creation...",
                            IF fails THEN RemoteError
                            ELSE Text(<<"Conflict: dataset already exists">>))
                      /\ args' = named
                      /\ client' = client
                 ELSE /\ client' = [store |-> Append(client.store, new_dataset)]
                      /\ args' = SetItem(named, "new_dataset", new_dataset)
                      /\ PhaseStep("datasets", "Testing dataset creation...", "create",
                            Dict([success |-> Bool(TRUE),
                                  dataset_id |-> Str(Attr(new_dataset, "id")),
                                  dataset_name |-> Attr(new_dataset, "name"),
                                  data_type |-> Attr(new_dataset, "data_type")]),
                            <<"Created dataset: ">> \o StrTokens(Attr(new_dataset, "name"))
                                \o <<" (ID: ">> \o StrTokens(Attr(new_dataset, "id"))
                                \o <<")">>,
                            "read")
    /\ UNCHANGED tool

\* 3. Read the created dataset
DatasetsRead ==
    /\ pc = "read"
    /\ LET id == Attr(args.new_dataset, "id")
           held == {i \in 1..Len(client.store) : Attr(client.store[i], "id") = id}
       IN  /\ calls' = Append(calls, Call("read_dataset", [dataset_id |-> id]))
           /\ \E fails \in BOOLEAN :
                 IF fails \/ held = {}
                 THEN /\ DatasetsFailed("Testing dataset reading...",
                            IF fails THEN RemoteError ELSE Text(<<"Dataset not found">>))
                      /\ args' = args
                 ELSE LET read_dataset == client.store[CHOOSE i \in held : TRUE]
                      IN  /\ args' = SetItem(args, "read_dataset", read_dataset)
                          /\ PhaseStep("datasets", "Testing dataset reading...", "read",
                                ReadSubResult(read_dataset),
                                <<"Read dataset: ">>
                                    \o StrTokens(Attr(read_dataset, "name")),
                                "exists")
    /\ UNCHANGED <<tool, client>>

\* 4. Check if dataset exists
DatasetsExists ==
    /\ pc = "exists"
    /\ calls' = Append(calls, Call("has_dataset", [dataset_name |-> args.dataset_name]))
    /\ \E fails \in BOOLEAN :
          IF fails
          THEN DatasetsFailed("Testing dataset existence check...", RemoteError)
               /\ args' = args
          ELSE LET exists == StoreHasName(client.store, args.dataset_name)
               IN  /\ args' = SetItem(args, "exists", Bool(exists))
                   /\ PhaseStep("datasets", "Testing dataset existence check...", "exists",
                         Dict([success |-> Bool(TRUE),
                               dataset_name |-> args.dataset_name,
                               exists |-> Bool(exists)]),
                         <<"Dataset ">> \o StrTokens(args.dataset_name)
                             \o <<" exists: ">>
                             \o (IF exists THEN <<"True">> ELSE <<"False">>),
                         "versions")
    /\ UNCHANGED <<tool, client>>

\* 5. List dataset versions; the script reads v.id of each, which the
\* listed value may or may not have
DatasetsVersions ==
    /\ pc = "versions"
    /\ calls' = Append(calls, Call("list_dataset_versions",
                                   [dataset_id |-> Attr(args.new_dataset, "id")]))
    /\ \E fails \in BOOLEAN,
          versions \in SeqsUpTo({Object([id |-> UUID(<<"v1">>)]),
                                 Object([tags |-> List(<<>>)])}, MaxVersions) :
          IF fails \/ ~HasAttrs(versions, "id")
          THEN /\ DatasetsFailed("Testing dataset versions...",
                     IF fails THEN RemoteError
                     ELSE Text(<<"object has no attribute 'id'">>))
               /\ args' = IF fails THEN args ELSE SetItem(args, "versions", List(versions))
          ELSE /\ args' = SetItem(args, "versions", List(versions))
               /\ PhaseStep("datasets", "Testing dataset versions...", "versions",
                     Dict([count |-> PyInt(Len(versions)),
                           version_ids |->
                               List([i \in 1..Len(versions) |->
                                        Str(Attr(versions[i], "id"))])]),
                     <<"Found ">> \o StrTokens(PyInt(Len(versions)))
                         \o <<" versions for dataset">>,
                     "splits")
    /\ UNCHANGED <<tool, client>>

\* 6. List dataset splits; the script reads s.name of each, which the listed
\* value may or may not have
DatasetsSplits ==
    /\ pc = "splits"
    /\ calls' = Append(calls, Call("list_dataset_splits",
                                   [dataset_id |-> Attr(args.new_dataset, "id")]))
    /\ \E fails \in BOOLEAN,
          splits \in SeqsUpTo({Object([name |-> Text(<<"base">>)]), Text(<<"base">>)},
                              MaxSplits) :
          IF fails \/ ~HasAttrs(splits, "name")
          THEN /\ DatasetsFailed("Testing dataset splits...",
                     IF fails THEN RemoteError
                     ELSE Text(<<"object has no attribute 'name'">>))
               /\ args' = IF fails THEN args ELSE SetItem(args, "splits", List(splits))
          ELSE /\ args' = SetItem(args, "splits", List(splits))
               /\ PhaseStep("datasets", "Testing dataset splits...", "splits",
                     Dict([count |-> PyInt(Len(splits)),
                           split_names |-> List(AttrOfEach(splits, "name"))]),
                     <<"Found ">> \o StrTokens(PyInt(Len(splits)))
                         \o <<" splits for dataset">>,
                     "update_tag")
    /\ UNCHANGED <<tool, client>>

\* 7. Update dataset tag
DatasetsUpdateTag ==
    /\ pc = "update_tag"
    /\ \E fails \in BOOLEAN, now \in {DateTime(1, 0), DateTime(1, 5)} :
          /\ calls' = Append(calls, Call("update_dataset_tag",
                                [dataset_id |-> Attr(args.new_dataset, "id"),
                                 tag |-> Text(<<"test-tag">>), as_of |-> now]))
          /\ IF fails
             THEN DatasetsFailed("Testing dataset tag update...", RemoteError)
             ELSE PhaseStep("datasets", "Testing dataset tag update...", "update_tag",
                            Dict([success |-> Bool(TRUE)]),
                            <<"Updated dataset tag">>, "delete")
    /\ UNCHANGED <<tool, args, client>>

\* 8. Delete the test dataset; the results are returned
DatasetsDelete ==
    /\ pc = "delete"
    /\ LET id == Attr(args.new_dataset, "id")
       IN  /\ calls' = Append(calls, Call("delete_dataset", [dataset_id |-> id]))
           /\ \E fails \in BOOLEAN :
                 IF fails
                 THEN DatasetsFailed("Testing dataset deletion...", RemoteError)
                      /\ client' = client
                 ELSE /\ client' = [store |-> SelectSeq(client.store,
                                                 LAMBDA d : Attr(d, "id") # id)]
                      /\ PhaseStep("datasets", "Testing dataset deletion...", "delete",
                            Dict([success |-> Bool(TRUE)]),
                            <<"Deleted dataset: ">> \o StrTokens(args.dataset_name),
                            "returned")
    /\ UNCHANGED <<tool, args>>

DatasetNext ==
    \/ DatasetsListExisting
    \/ DatasetsCreate
    \/ DatasetsRead
    \/ DatasetsExists
    \/ DatasetsVersions
    \/ DatasetsSplits
    \/ DatasetsUpdateTag
    \/ DatasetsDelete

DatasetSpec == Init /\ [][DatasetNext]_vars

----------------------------------------------------------------------------
(* src/examples/fetch_trace.py and src/examples/get_run_stats.py: the      *)
(* scripts' own definitions of the two tools                                *)

\* fetch_trace_tool of fetch_trace.py
example_fetch_trace_toolTwoRuns(cl, project_name_arg, trace_id_arg) ==
    LET project_name == IF project_name_arg = Text(<<"null">>) THEN None
                        ELSE project_name_arg
        trace_id == IF trace_id_arg = Text(<<"null">>) THEN None ELSE trace_id_arg
        made == <<Call("list_runs",
                       [project_name |-> IF Truthy(project_name) THEN project_name ELSE None,
                        id |-> IF Truthy(trace_id) THEN List(<<trace_id>>) ELSE None,
                        select |-> <<"inputs", "outputs", "run_type", "id", "error",
                                     "total_tokens", "total_cost", "feedback_stats",
                                     "app_path", "thread_id">>,
                        is_root |-> TRUE,
                        limit |-> 2])>>
        response == cl.list_runs
        failed(e) == Return(Dict([error |-> Format("Error fetching last trace: ", e)]), made)
    IN  IF ~Truthy(project_name) /\ ~Truthy(trace_id)
        THEN Return(Dict([error |-> Text(<<"Error: Either project_name or trace_id must be provided.">>)]),
                    <<>>)
        ELSE IF response[1] = "raise" THEN failed(response[2])
        ELSE IF TypeOf(response[2]) # "list"
        THEN failed(Text(<<"'NoneType' object is not iterable">>))
        ELSE IF response[2][2] = <<>>
        THEN Return(Dict([error |-> Format("No runs found for project_name: ",
                                           project_name)]), made)
        ELSE LET run == response[2][2][1]
             IN Return(Dict([trace_id |-> Str(Attr(run, "id")),
                             run_type |-> Attr(run, "run_type"),
                             id |-> Str(Attr(run, "id")),
                             error |-> Attr(run, "error"),
                             inputs |-> Attr(run, "inputs"),
                             outputs |-> Attr(run, "outputs"),
                             total_tokens |-> Attr(run, "total_tokens"),
                             total_cost |-> Str(Attr(run, "total_cost")),
                             feedback_stats |-> Attr(run, "feedback_stats"),
                             app_path |-> Attr(run, "app_path"),
                             thread_id |-> IF HasAttr(run, "thread_id")
                                           THEN Str(Attr(run, "thread_id")) ELSE None]),
                       made)

example_fetch_trace_tool(cl, project_name_arg, trace_id_arg) ==
    LET project_name == IF project_name_arg = Text(<<"null">>) THEN None
                        ELSE project_name_arg
        trace_id == IF trace_id_arg = Text(<<"null">>) THEN None ELSE trace_id_arg
        made == <<Call("list_runs",
                       [project_name |-> IF Truthy(project_name) THEN project_name ELSE None,
                        id |-> IF Truthy(trace_id) THEN List(<<trace_id>>) ELSE None,
                        select |-> <<"inputs", "outputs", "run_type", "id", "error",
                                     "total_tokens", "total_cost", "feedback_stats",
                                     "app_path", "thread_id">>,
                        is_root |-> TRUE,
                        limit |-> 1])>>
        response == cl.list_runs
        failed(e) == Return(Dict([error |-> Format("Error fetching last trace: ", e)]), made)
    IN  IF ~Truthy(project_name) /\ ~Truthy(trace_id)
        THEN Return(Dict([error |-> Text(<<"Error: Either project_name or trace_id must be provided.">>)]),
                    <<>>)
        ELSE IF response[1] = "raise" THEN failed(response[2])
        ELSE IF TypeOf(response[2]) # "list"
        THEN failed(Text(<<"'NoneType' object is not iterable">>))
        ELSE IF response[2][2] = <<>>
        THEN Return(Dict([error |-> Format("No runs found for project_name: ",
                                           project_name)]), made)
        ELSE LET run == response[2][2][1]
             IN Return(Dict([trace_id |-> Str(Attr(run, "id")),
                             run_type |-> Attr(run, "run_type"),
                             id |-> Str(Attr(run, "id")),
                             error |-> Attr(run, "error"),
                             inputs |-> Attr(run, "inputs"),
                             outputs |-> Attr(run, "outputs"),
                             total_tokens |-> Attr(run, "total_tokens"),
                             total_cost |-> Str(Attr(run, "total_cost")),
                             feedback_stats |-> Attr(run, "feedback_stats"),
                             app_path |-> Attr(run, "app_path"),
                             thread_id |-> IF HasAttr(run, "thread_id")
                                           THEN Str(Attr(run, "thread_id")) ELSE None]),
                       made)

\* get_project_runs_stats_tool of get_run_stats.py
example_get_project_runs_stats_tool(cl, project_name_arg, trace_id_arg) ==
    LET project_name == IF project_name_arg = Text(<<"null">>) THEN None
                        ELSE project_name_arg
        trace_id == IF trace_id_arg = Text(<<"null">>) THEN None ELSE trace_id_arg
        failed(e, made) ==
            Return(Dict([error |-> Format("Error getting project runs stats: ", e)]), made)
    IN  IF ~Truthy(project_name) /\ ~Truthy(trace_id)
        THEN Return(Dict([error |-> Text(<<"Error: Either project_name or trace_id must be provided.">>)]),
                    <<>>)
        ELSE IF TypeOf(project_name) # "str"
        THEN failed(Text(<<"'NoneType' object has no attribute 'split'">>), <<>>)
        ELSE
        LET parts == Split(project_name[2])
            actual_project_name == IF Len(parts) = 2 THEN Text(parts[2]) ELSE project_name
            made == <<Call("get_run_stats",
                           [project_names |-> IF Truthy(project_name)
                                              THEN List(<<actual_project_name>>) ELSE None,
                            trace |-> IF Truthy(trace_id) THEN trace_id ELSE None])>>
            response == cl.get_run_stats
        IN  IF response[1] = "raise" THEN failed(response[2], made)
            ELSE IF TypeOf(response[2]) # "dict"
            THEN failed(Text(<<"'NoneType' object has no attribute 'pop'">>), made)
            ELSE Return(Dict(SetItem(Pop(Items(response[2]), "run_facets"),
                                     "project_name", actual_project_name)), made)

\* A call of the script's fetch_trace_tool
ExampleFetchTrace ==
    /\ pc = "ready"
    /\ \E project_name \in ProjectNames, trace_id \in TraceIds, cl \in TraceClients :
          /\ tool' = "fetch_trace.fetch_trace_tool"
          /\ args' = [project_name |-> project_name, trace_id |-> trace_id]
          /\ client' = cl
          /\ Finish(example_fetch_trace_tool(cl, project_name, trace_id))

\* A call of the script's get_project_runs_stats_tool
ExampleGetRunStats ==
    /\ pc = "ready"
    /\ \E project_name \in ProjectNames, trace_id \in TraceIds, cl \in StatsClients :
          /\ tool' = "get_run_stats.get_project_runs_stats_tool"
          /\ args' = [project_name |-> project_name, trace_id |-> trace_id]
          /\ client' = cl
          /\ Finish(example_get_project_runs_stats_tool(cl, project_name, trace_id))

ExampleNext == ExampleFetchTrace \/ ExampleGetRunStats

ExampleSpec == Init /\ [][ExampleNext]_vars

----------------------------------------------------------------------------
(* src/examples/datasets_annotation.py: test_examples_operations *)

\* An example the service returns
ExampleRecord(id, inputs, outputs) ==
    Object([id |-> UUID(<<id>>), inputs |-> Dict(inputs), outputs |-> Dict(outputs),
            metadata |-> Dict([source |-> Text(<<"test-script">>)])])

\* {"success": False, "error": str(e)}
FailedSubResultUndecided(e) == Dict([success |-> None, error |-> Str(e)])

FailedSubResultAsSuccess(e) == Dict([success |-> Bool(TRUE), error |-> Str(e)])

FailedSubResult(e) == Dict([success |-> Bool(FALSE), error |-> Str(e)])

\* The service answered a call: the answer is kept with what it holds
Answer(response) == [client EXCEPT !.answers = Append(@, response)]

\* The steps of test_examples_operations, one disjunct each
TestExamplesOperations ==
    \* results = {"examples": {}}; the scratch dataset is created
    \/ /\ pc = "ready"
       /\ tool' = "test_examples_operations"
       /\ \E hex \in Uuid4Hex :
             LET dataset_name == Text(<<"test-examples-dataset-">> \o SubSeq(hex, 1, 8))
                 description == Text(<<"Test dataset for examples operations">>)
                 results == Dict([examples |-> Dict(EmptyItems)])
             IN  /\ calls' = <<Call("create_dataset",
                        [dataset_name |-> dataset_name, description |-> description,
                         data_type |-> Text(<<"kv">>)])>>
                 /\ \E response \in
                       {Raises(RemoteError),
                        Returns(StoredDataset(UUID(<<"n1">>), dataset_name, description,
                                              Text(<<"kv">>), DateTime(1, 0)))} :
                       /\ IF response[1] = "raise"
                          THEN /\ args' = [dataset_name |-> dataset_name]
                               /\ client' = [store |-> <<>>, answers |-> <<response>>]
                               /\ result' = WithPhase(results, "examples", "error",
                                     Format("Example operations failed: ", response[2]))
                               /\ output' = <<Format("Example operations error: ",
                                                     response[2])>>
                               /\ pc' = "returned"
                          ELSE /\ args' = [dataset_name |-> dataset_name,
                                           dataset |-> response[2]]
                               /\ client' = [store |-> <<response[2]>>,
                                             answers |-> <<response>>]
                               /\ result' = results
                               /\ output' = <<>>
                               /\ pc' = "create_simple"
    \* 1. Create a simple example
    \/ /\ pc = "create_simple"
       /\ LET inputs == Dict([question |-> Text(<<"What is the capital of France?">>)])
              outputs == Dict([answer |-> Text(<<"The capital of France is Paris.">>)])
          IN
          /\ calls' = Append(calls, Call("create_example",
                 [dataset_id |-> Attr(args.dataset, "id"),
                  inputs |-> inputs, outputs |-> outputs,
                  metadata |-> Dict([source |-> Text(<<"test-script">>),
                                     difficulty |-> Text(<<"easy">>)])]))
          /\ \E response \in {Raises(RemoteError),
                              Returns(ExampleRecord("e1", inputs[2], outputs[2]))} :
                /\ client' = Answer(response)
                /\ IF response[1] = "raise"
                   THEN PhaseFailed("examples", "Testing example creation...",
                                    "Example operations failed: ",
                                    "Example operations error: ", response[2])
                        /\ args' = args
                   ELSE LET example == response[2]
                        IN  /\ args' = SetItem(args, "example", example)
                            /\ PhaseStep("examples", "Testing example creation...",
                                  "create_simple",
                                  Dict([success |-> Bool(TRUE),
                                        example_id |-> Str(Attr(example, "id")),
                                        inputs |-> Attr(example, "inputs"),
                                        outputs |-> Attr(example, "outputs")]),
                                  <<"Created example: ">> \o StrTokens(Attr(example, "id")),
                                  "create_chat")
       /\ UNCHANGED tool
    \* 2. Create a chat example; the object returned may have no messages
    \/ /\ pc = "create_chat"
       /\ LET messages == List(<<Message("user", "Hello, how are you?"),
                                 Message("assistant",
                                         "I'm doing well, thank you for asking!")>>)
          IN
          /\ calls' = Append(calls, Call("create_chat_example",
                 [dataset_id |-> Attr(args.dataset, "id"), messages |-> messages]))
          /\ \E response \in {Raises(RemoteError),
                              Returns(Object([id |-> UUID(<<"e2">>),
                                              messages |-> messages])),
                              Returns(Object([id |-> UUID(<<"e2">>)]))} :
                /\ client' = Answer(response)
                /\ IF response[1] = "raise"
                   THEN PhaseFailed("examples", "Testing chat example creation...",
                                    "Example operations failed: ",
                                    "Example operations error: ", response[2])
                        /\ args' = args
                   ELSE LET chat_example == response[2]
                        IN  /\ args' = SetItem(args, "chat_example", chat_example)
                            /\ PhaseStep("examples", "Testing chat example creation...",
                                  "create_chat",
                                  Dict([success |-> Bool(TRUE),
                                        example_id |-> Str(Attr(chat_example, "id")),
                                        message_count |->
                                            IF HasAttr(chat_example, "messages")
                                            THEN PyInt(Len(Attr(chat_example,
                                                                "messages")[2]))
                                            ELSE PyInt(0)]),
                                  <<"Created chat example: ">>
                                      \o StrTokens(Attr(chat_example, "id")),
                                  "create_llm")
       /\ UNCHANGED tool
    \* 3. Create an LLM example
    \/ /\ pc = "create_llm"
       /\ calls' = Append(calls, Call("create_llm_example",
              [dataset_id |-> Attr(args.dataset, "id"),
               prompt |-> Text(<<"Translate 'Hello world' to Spanish">>),
               generation |-> Text(<<"Hola mundo">>)]))
       /\ \E response \in
             {Raises(RemoteError),
              Returns(ExampleRecord("e3",
                         [input |-> Text(<<"Translate 'Hello world' to Spanish">>)],
                         [output |-> Text(<<"Hola mundo">>)]))} :
             /\ client' = Answer(response)
             /\ IF response[1] = "raise"
                THEN PhaseFailed("examples", "Testing LLM example creation...",
                                 "Example operations failed: ",
                                 "Example operations error: ", response[2])
                     /\ args' = args
                ELSE LET llm_example == response[2]
                     IN  /\ args' = SetItem(args, "llm_example", llm_example)
                         /\ PhaseStep("examples", "Testing LLM example creation...",
                               "create_llm",
                               Dict([success |-> Bool(TRUE),
                                     example_id |-> Str(Attr(llm_example, "id")),
                                     inputs |-> Attr(llm_example, "inputs"),
                                     outputs |-> Attr(llm_example, "outputs")]),
                               <<"Created LLM example: ">>
                                   \o StrTokens(Attr(llm_example, "id")),
                               "list")
       /\ UNCHANGED tool
    \* 4. List examples: the service lists none, some or all of the examples
    \* created, in the order of creation
    \/ /\ pc = "list"
       /\ calls' = Append(calls, Call("list_examples",
              [dataset_id |-> Attr(args.dataset, "id"), limit |-> PyInt(10)]))
       /\ \E response \in
             {Raises(RemoteError)} \cup
             {Returns(List(SubSeq(<<args.example,
                                    ExampleRecord("e2", EmptyItems, EmptyItems),
                                    args.llm_example>>, 1, listed))) : listed \in 0..3} :
             /\ client' = Answer(response)
             /\ IF response[1] = "raise"
                THEN PhaseFailed("examples", "Testing example listing...",
                                 "Example operations failed: ",
                                 "Example operations error: ", response[2])
                     /\ args' = args
                ELSE LET examples == response[2][2]
                     IN  /\ args' = SetItem(args, "examples", List(examples))
                         /\ PhaseStep("examples", "Testing example listing...", "list",
                               Dict([count |-> PyInt(Len(examples)),
                                     example_ids |->
                                         List([i \in 1..Len(examples) |->
                                                  Str(Attr(examples[i], "id"))])]),
                               <<"Found ">> \o StrTokens(PyInt(Len(examples)))
                                   \o <<" examples in dataset">>,
                               "read")
       /\ UNCHANGED tool
    \* 5. Read a specific example, if any was listed
    \/ /\ pc = "read"
       /\ IF ~Truthy(args.examples)
          THEN /\ output' = Append(output, Text(<<"Testing example reading...">>))
               /\ pc' = "update"
               /\ UNCHANGED <<args, client, calls, result>>
          ELSE /\ calls' = Append(calls, Call("read_example",
                      [example_id |-> Attr(args.examples[2][1], "id")]))
               /\ \E response \in {Raises(RemoteError), Returns(args.examples[2][1])} :
                     /\ client' = Answer(response)
                     /\ IF response[1] = "raise"
                        THEN PhaseFailed("examples", "Testing example reading...",
                                         "Example operations failed: ",
                                         "Example operations error: ", response[2])
                             /\ args' = args
                        ELSE LET read_example == response[2]
                             IN  /\ args' = SetItem(args, "read_example", read_example)
                                 /\ PhaseStep("examples", "Testing example reading...",
                                       "read",
                                       Dict([success |-> Bool(TRUE),
                                             example_id |-> Str(Attr(read_example, "id")),
                                             inputs |-> Attr(read_example, "inputs"),
                                             outputs |-> Attr(read_example, "outputs"),
                                             metadata |-> Attr(read_example, "metadata")]),
                                       <<"Read example: ">>
                                           \o StrTokens(Attr(read_example, "id")),
                                       "update")
       /\ UNCHANGED tool
    \* 6. Update an example, if any was listed; a failure is caught here.
    \* The service answers with a dict, an object, or nothing
    \/ /\ pc = "update"
       /\ IF ~Truthy(args.examples)
          THEN /\ output' = Append(output, Text(<<"Testing example update...">>))
               /\ pc' = "create_bulk"
               /\ UNCHANGED <<client, calls, result>>
          ELSE LET first == Attr(args.examples[2][1], "id")
                   inputs == Dict([question |->
                                      Text(<<"What is the capital of France? (updated)">>)])
                   outputs == Dict([answer |->
                                      Text(<<"The capital of France is Paris. (updated)">>)])
               IN
               /\ calls' = Append(calls, Call("update_example",
                      [example_id |-> first, inputs |-> inputs, outputs |-> outputs,
                       metadata |-> Dict([source |-> Text(<<"test-script">>),
                                          difficulty |-> Text(<<"easy">>),
                                          updated |-> Bool(TRUE)])]))
               /\ \E response \in {Raises(RemoteError), Returns(None),
                                   Returns(Dict(EmptyItems)),
                                   Returns(Object([id |-> first, inputs |-> inputs,
                                                   outputs |-> outputs]))} :
                     /\ client' = Answer(response)
                     /\ IF response[1] = "raise" \/ response[2] = None
                        THEN LET e == IF response[1] = "raise" THEN response[2]
                                      ELSE Text(<<"'NoneType' object has no attribute 'id'">>)
                             IN PhaseStep("examples", "Testing example update...", "update",
                                          FailedSubResult(e),
                                          <<"Failed to update example: ">> \o StrTokens(e),
                                          "create_bulk")
                        ELSE LET updated_example == response[2]
                             IN PhaseStep("examples", "Testing example update...", "update",
                                   IF TypeOf(updated_example) = "dict"
                                   THEN Dict([success |-> Bool(TRUE),
                                              example_id |->
                                                  Str(IF "id" \in Keys(updated_example)
                                                      THEN Items(updated_example)["id"]
                                                      ELSE first),
                                              inputs |->
                                                  IF "inputs" \in Keys(updated_example)
                                                  THEN Items(updated_example)["inputs"]
                                                  ELSE Dict(EmptyItems),
                                              outputs |->
                                                  IF "outputs" \in Keys(updated_example)
                                                  THEN Items(updated_example)["outputs"]
                                                  ELSE Dict(EmptyItems)])
                                   ELSE Dict([success |-> Bool(TRUE),
                                              example_id |-> Str(Attr(updated_example, "id")),
                                              inputs |-> Attr(updated_example, "inputs"),
                                              outputs |-> Attr(updated_example, "outputs")]),
                                   <<"Updated example: ">> \o StrTokens(first),
                                   "create_bulk")
       /\ UNCHANGED <<tool, args>>
    \* 7. Create multiple examples at once; a failure is caught here.  The
    \* service answers with a list of objects or dicts, or with one value
    \/ /\ pc = "create_bulk"
       /\ calls' = Append(calls, Call("create_examples",
              [dataset_id |-> Attr(args.dataset, "id"),
               examples |-> List([i \in 1..3 |->
                   Dict([inputs |-> Dict([question |-> Format("Question ", PyInt(i - 1))]),
                         outputs |-> Dict([answer |-> Format("Answer ", PyInt(i - 1))]),
                         metadata |-> Dict([batch |-> Text(<<"bulk">>),
                                            index |-> PyInt(i - 1)])])])]))
       /\ \E response \in {Raises(RemoteError),
                           Returns(List(<<Object([id |-> UUID(<<"b1">>)]),
                                          Dict([id |-> UUID(<<"b2">>)]),
                                          Dict(EmptyItems)>>)),
                           Returns(Dict([count |-> PyInt(3)])),
                           Returns(Object([id |-> UUID(<<"b1">>)]))} :
             /\ client' = Answer(response)
             /\ IF response[1] = "raise"
                THEN PhaseStep("examples", "Testing bulk example creation...",
                               "create_bulk", FailedSubResult(response[2]),
                               <<"Failed to create bulk examples: ">>
                                   \o StrTokens(response[2]),
                               "delete_single")
                ELSE LET created_examples == response[2]
                         is_list == TypeOf(created_examples) = "list"
                         id_of(e) == IF TypeOf(e) = "object" /\ HasAttr(e, "id")
                                     THEN Str(Attr(e, "id"))
                                     ELSE IF TypeOf(e) = "dict" /\ "id" \in Keys(e)
                                     THEN Str(Items(e)["id"])
                                     ELSE Text(<<"unknown">>)
                         example_ids ==
                             IF is_list
                             THEN [i \in 1..Len(created_examples[2]) |->
                                      id_of(created_examples[2][i])]
                             ELSE <<IF TypeOf(created_examples) = "object"
                                       /\ HasAttr(created_examples, "id")
                                    THEN Str(Attr(created_examples, "id"))
                                    ELSE Text(<<"unknown">>)>>
                         count == PyInt(IF is_list THEN Len(created_examples[2]) ELSE 1)
                     IN PhaseStep("examples", "Testing bulk example creation...",
                                  "create_bulk",
                                  Dict([success |-> Bool(TRUE), count |-> count,
                                        example_ids |-> List(example_ids)]),
                                  <<"Created ">> \o StrTokens(count)
                                      \o <<" examples in bulk">>,
                                  "delete_single")
       /\ UNCHANGED <<tool, args>>
    \* 8. Delete examples: the first listed, if any
    \/ /\ pc = "delete_single"
       /\ IF ~Truthy(args.examples)
          THEN /\ output' = Append(output, Text(<<"Testing example deletion...">>))
               /\ pc' = "cleanup"
               /\ UNCHANGED <<client, calls, result>>
          ELSE /\ calls' = Append(calls, Call("delete_example",
                      [example_id |-> Attr(args.examples[2][1], "id")]))
               /\ \E response \in {Raises(RemoteError), Returns(None)} :
                     /\ client' = Answer(response)
                     /\ IF response[1] = "raise"
                        THEN PhaseFailed("examples", "Testing example deletion...",
                                         "Example operations failed: ",
                                         "Example operations error: ", response[2])
                        ELSE PhaseStep("examples", "Testing example deletion...",
                                       "delete_single", Dict([success |-> Bool(TRUE)]),
                                       <<"Deleted example: ">>
                                           \o StrTokens(Attr(args.examples[2][1], "id")),
                                       "cleanup")
       /\ UNCHANGED <<tool, args>>
    \* Clean up the dataset; the results are returned
    \/ /\ pc = "cleanup"
       /\ calls' = Append(calls, Call("delete_dataset",
                                      [dataset_id |-> Attr(args.dataset, "id")]))
       /\ \E response \in {Raises(RemoteError), Returns(None)} :
             IF response[1] = "raise"
             THEN /\ result' = WithPhase(result, "examples", "error",
                                  Format("Example operations failed: ", response[2]))
                  /\ output' = Append(output,
                                  Format("Example operations error: ", response[2]))
                  /\ client' = Answer(response)
             ELSE /\ client' = [store |-> SelectSeq(client.store,
                                     LAMBDA d : Attr(d, "id") # Attr(args.dataset, "id")),
                                answers |-> Append(client.answers, response)]
                  /\ output' = Append(output,
                                  Format("Cleaned up dataset: ", args.dataset_name))
                  /\ result' = result
       /\ pc' = "returned"
       /\ UNCHANGED <<tool, args>>

ExamplesSpec == Init /\ [][TestExamplesOperations]_vars

----------------------------------------------------------------------------
(* src/examples/datasets_annotation.py: test_annotation_queues_operations *)

MaxProjects == 2

\* The runs the service may list; a run may lack name and run_type
QueueRuns ==
    <<Object([id |-> UUID(<<"r1">>), name |-> Text(<<"chain">>), run_type |-> Text(<<"llm">>)]),
      Object([id |-> UUID(<<"r2">>)]),
      Object([id |-> UUID(<<"r3">>), name |-> Text(<<"tool">>), run_type |-> Text(<<"tool">>)])>>

\* What list_runs may answer for a limit
RunListings(limit) ==
    {Raises(RemoteError), Returns(List(<<>>)), Returns(List(SubSeq(QueueRuns, 1, 1)))} \cup
    (IF limit > 1 THEN {Returns(List(QueueRuns))} ELSE {})

\* for project in projects: list(client.list_runs(project_name=project.name,
\* limit=limit)) until a listing is not empty; a failing listing is skipped.
\* Gives the calls made, their answers, the runs found and the lines the
\* probing of step 5 prints
RECURSIVE ProbeProjects(_, _, _, _)
ProbeProjects(projects, answers, limit, i) ==
    IF i > Len(projects)
    THEN [calls |-> <<>>, answers |-> <<>>, runs |-> <<>>, printed |-> <<>>]
    ELSE LET name == Attr(projects[i], "name")
             made == Call("list_runs", [project_name |-> name, limit |-> PyInt(limit)])
             rest == ProbeProjects(projects, answers, limit, i + 1)
             skip(line) == [calls |-> <<made>> \o rest.calls,
                            answers |-> <<answers[i]>> \o rest.answers,
                            runs |-> rest.runs,
                            printed |-> <<line>> \o rest.printed]
         IN  IF answers[i][1] = "raise"
             THEN skip(Text(<<"Failed to list runs from project '">> \o StrTokens(name)
                            \o <<"': ">> \o StrTokens(answers[i][2])))
             ELSE IF answers[i][2][2] = <<>>
             THEN skip(Text(<<"No runs found in project '">> \o StrTokens(name) \o <<"'">>))
             ELSE [calls |-> <<made>>, answers |-> <<answers[i]>>,
                   runs |-> answers[i][2][2],
                   printed |-> <<Text(<<"Found ">>
                                      \o StrTokens(PyInt(Len(answers[i][2][2])))
                                      \o <<" runs in project '">> \o StrTokens(name)
                                      \o <<"'">>)>>]

\* The steps of test_annotation_queues_operations, one disjunct each
TestAnnotationQueuesOperations ==
    \* results = {"annotation_queues": {}}; 1. List existing annotation queues
    \/ /\ pc = "ready"
       /\ tool' = "test_annotation_queues_operations"
       /\ args' = [test_runs |-> List(<<>>)]
       /\ calls' = <<Call("list_annotation_queues", [limit |-> PyInt(5)])>>
       /\ \E response \in {Raises(RemoteError), Returns(List(<<>>)),
                           Returns(List(<<Object([name |-> Text(<<"review">>)])>>))} :
             LET results == Dict([annotation_queues |-> Dict(EmptyItems)])
             IN  /\ client' = [answers |-> <<response>>]
                 /\ IF response[1] = "raise"
                    THEN /\ result' = WithPhase(results, "annotation_queues", "error",
                                  Format("Annotation queue operations failed: ", response[2]))
                         /\ output' = <<Text(<<"Testing annotation queue listing...">>),
                                        Format("Annotation queue operations error: ",
                                               response[2])>>
                         /\ pc' = "returned"
                    ELSE LET queues == response[2][2]
                         IN  /\ result' = WithPhase(results, "annotation_queues",
                                   "list_existing",
                                   Dict([count |-> PyInt(Len(queues)),
                                         queue_names |-> List(AttrOfEach(queues, "name"))]))
                             /\ output' = <<Text(<<"Testing annotation queue listing...">>),
                                            Text(<<"Found ">> \o StrTokens(PyInt(Len(queues)))
                                                 \o <<" existing annotation queues">>)>>
                             /\ pc' = "create"
    \* 2. Create a new annotation queue
    \/ /\ pc = "create"
       /\ \E hex \in Uuid4Hex :
             LET queue_name == Text(<<"test-queue-">> \o SubSeq(hex, 1, 8))
                 description ==
                     Text(<<"Test annotation queue created by API testing script">>)
             IN  /\ calls' = Append(calls, Call("create_annotation_queue",
                        [name |-> queue_name, description |-> description]))
                 /\ \E response \in
                       {Raises(RemoteError),
                        Returns(Object([id |-> UUID(<<"q1">>), name |-> queue_name,
                                        description |-> description,
                                        created_at |-> DateTime(1, 5)]))} :
                       /\ client' = Answer(response)
                       /\ IF response[1] = "raise"
                          THEN /\ args' = SetItem(args, "queue_name", queue_name)
                               /\ PhaseFailed("annotation_queues",
                                     "Testing annotation queue creation...",
                                     "Annotation queue operations failed: ",
                                     "Annotation queue operations error: ", response[2])
                          ELSE LET new_queue == response[2]
                               IN  /\ args' = SetItem(SetItem(args, "queue_name", queue_name),
                                                      "new_queue", new_queue)
                                   /\ PhaseStep("annotation_queues",
                                         "Testing annotation queue creation...", "create",
                                         Dict([success |-> Bool(TRUE),
                                               queue_id |-> Str(Attr(new_queue, "id")),
                                               queue_name |-> Attr(new_queue, "name"),
                                               description |-> Attr(new_queue, "description")]),
                                         <<"Created annotation queue: ">>
                                             \o StrTokens(Attr(new_queue, "name"))
                                             \o <<" (ID: ">>
                                             \o StrTokens(Attr(new_queue, "id")) \o <<")">>,
                                         "read")
       /\ UNCHANGED tool
    \* 3. Read the created annotation queue
    \/ /\ pc = "read"
       /\ calls' = Append(calls, Call("read_annotation_queue",
                                      [queue_id |-> Attr(args.new_queue, "id")]))
       /\ \E response \in {Raises(RemoteError), Returns(args.new_queue)} :
             /\ client' = Answer(response)
             /\ IF response[1] = "raise"
                THEN PhaseFailed("annotation_queues", "Testing annotation queue reading...",
                                 "Annotation queue operations failed: ",
                                 "Annotation queue operations error: ", response[2])
                ELSE LET read_queue == response[2]
                     IN PhaseStep("annotation_queues",
                           "Testing annotation queue reading...", "read",
                           Dict([success |-> Bool(TRUE),
                                 queue_id |-> Str(Attr(read_queue, "id")),
                                 queue_name |-> Attr(read_queue, "name"),
                                 description |-> Attr(read_queue, "description"),
                                 created_at |-> Str(Attr(read_queue, "created_at"))]),
                           <<"Read annotation queue: ">>
                               \o StrTokens(Attr(read_queue, "name")),
                           "update")
       /\ UNCHANGED <<tool, args>>
    \* 4. Update the annotation queue; a failure is caught here.  The service
    \* answers with the queue, with part of it, or with nothing
    \/ /\ pc = "update"
       /\ LET updated_name == Text(StrTokens(args.queue_name) \o <<"-updated">>)
              updated_description == Text(<<"Updated test annotation queue description">>)
              id == Attr(args.new_queue, "id")
          IN
          /\ calls' = Append(calls, Call("update_annotation_queue",
                 [queue_id |-> id, name |-> updated_name,
                  description |-> updated_description]))
          /\ \E response \in {Raises(RemoteError), Returns(None),
                              Returns(Object([id |-> id])),
                              Returns(Object([id |-> id, name |-> Text(<<"renamed">>),
                                              description |-> Text(<<"changed">>)]))} :
                /\ client' = Answer(response)
                /\ IF response[1] = "raise"
                   THEN PhaseStep("annotation_queues", "Testing annotation queue update...",
                                  "update", FailedSubResult(response[2]),
                                  <<"Failed to update annotation queue: ">>
                                      \o StrTokens(response[2]),
                                  "add_runs")
                   ELSE LET updated_queue == response[2]
                            has(a) == Truthy(updated_queue) /\ HasAttr(updated_queue, a)
                        IN PhaseStep("annotation_queues",
                              "Testing annotation queue update...", "update",
                              Dict([success |-> Bool(TRUE),
                                    queue_id |-> IF has("id")
                                                 THEN Str(Attr(updated_queue, "id"))
                                                 ELSE Str(id),
                                    queue_name |-> IF has("name")
                                                   THEN Attr(updated_queue, "name")
                                                   ELSE updated_name,
                                    description |-> IF has("description")
                                                    THEN Attr(updated_queue, "description")
                                                    ELSE updated_description]),
                              <<"Updated annotation queue: ">> \o StrTokens(updated_name),
                              "add_runs")
       /\ UNCHANGED <<tool, args>>
    \* 5. Add runs to annotation queue: the projects are listed and probed
    \* for runs; when the listing of projects fails, runs are listed by
    \* session, by trace and without a filter.  A failure is caught here
    \/ /\ pc = "add_runs"
       /\ \E listed \in {Raises(RemoteError)} \cup
                        {Returns(List([i \in 1..n |->
                                     Object([name |-> Text(<<"p", Digit[i]>>)])])) :
                            n \in 0..MaxProjects},
             by_session \in RunListings(5), by_trace \in RunListings(5),
             unfiltered \in RunListings(5), added \in {Raises(RemoteError), Returns(None)} :
          \E answers \in [1..(IF listed[1] = "raise" THEN 0 ELSE Len(listed[2][2]))
                            -> RunListings(5)] :
             LET fallbacks == <<by_session, by_trace, unfiltered>>
                 filters == <<[session_id |-> Text(<<"test">>), limit |-> PyInt(5)],
                              [trace_id |-> Text(<<"test">>), limit |-> PyInt(5)],
                              [limit |-> PyInt(5)]>>
                 tried_with == <<"session", "trace">>
                 found_in == <<"in test session", "in test trace", "without filters">>
                 \* repr() of the list of the first n project names
                 names[n \in 0..MaxProjects + 1] ==
                     IF n = 0 THEN <<>>
                     ELSE names[n - 1] \o (IF n > 1 THEN <<", ">> ELSE <<>>) \o <<"'">>
                          \o StrTokens(Attr(listed[2][2][n], "name")) \o <<"'">>
                 \* the fallback listings made: up to the first that answers
                 tried == IF by_session[1] = "return" THEN 1
                          ELSE IF by_trace[1] = "return" THEN 2 ELSE 3
                 probe == IF listed[1] = "return"
                          THEN ProbeProjects(listed[2][2], answers, 5, 1)
                          ELSE [calls |-> [i \in 1..tried |-> Call("list_runs", filters[i])],
                                answers |-> SubSeq(fallbacks, 1, tried),
                                runs |-> IF fallbacks[tried][1] = "return"
                                         THEN fallbacks[tried][2][2] ELSE <<>>,
                                printed |->
                                    [i \in 1..(IF fallbacks[tried][1] = "return"
                                               THEN tried ELSE 2) |->
                                        IF fallbacks[i][1] = "raise"
                                        THEN Text(<<"Failed to list runs with ", tried_with[i],
                                                    " filter: ">>
                                                  \o StrTokens(fallbacks[i][2]))
                                        ELSE Text(<<"Found ">>
                                                  \o StrTokens(PyInt(Len(fallbacks[i][2][2])))
                                                  \o <<" runs ", found_in[i]>>)]]
                 \* the last fallback raised: the failure leaves the block
                 raised == listed[1] = "raise" /\ unfiltered[1] = "raise" /\ tried = 3
                 existing_runs == probe.runs
                 run_ids == [i \in 1..(IF Len(existing_runs) < 2 THEN Len(existing_runs)
                                       ELSE 2) |-> Str(Attr(existing_runs[i], "id"))]
                 adding == ~raised /\ existing_runs # <<>>
                 add == Call("add_runs_to_annotation_queue",
                             [queue_id |-> Attr(args.new_queue, "id"),
                              run_ids |-> List(run_ids)])
                 made == <<Call("list_projects", [limit |-> PyInt(5)])>> \o probe.calls
                         \o (IF adding THEN <<add>> ELSE <<>>)
                 answered == <<listed>> \o probe.answers
                             \o (IF adding THEN <<added>> ELSE <<>>)
                 sub_result ==
                     IF raised THEN FailedSubResult(unfiltered[2])
                     ELSE IF ~adding
                     THEN Dict([success |-> Bool(FALSE),
                                reason |-> Text(<<"No existing runs found in the system">>)])
                     ELSE IF added[1] = "raise" THEN FailedSubResult(added[2])
                     ELSE Dict([success |-> Bool(TRUE),
                                run_count |-> PyInt(Len(run_ids)),
                                run_ids |-> List(run_ids)])
             IN  /\ calls' = calls \o made
                 /\ client' = [client EXCEPT !.answers = @ \o answered]
                 /\ args' = IF listed[1] = "return"
                            THEN SetItem(args, "projects", listed[2])
                            ELSE args
                 /\ result' = WithPhase(result, "annotation_queues", "add_runs", sub_result)
                 /\ output' = output
                        \o <<Text(<<"Testing adding runs to annotation queue...">>),
                             Text(<<"Looking for existing runs...">>)>>
                        \o (IF listed[1] = "raise"
                            THEN <<Format("Failed to list projects: ", listed[2])>>
                            ELSE <<Text(<<"Found ">>
                                        \o StrTokens(PyInt(Len(listed[2][2])))
                                        \o <<" projects: [">>
                                        \o names[Len(listed[2][2])] \o <<"]">>)>>
                                 \o (IF listed[2][2] = <<>>
                                     THEN <<Text(<<"No projects found">>)>>
                                     ELSE <<>>))
                        \o probe.printed
                        \o (IF adding
                            THEN [i \in 1..(IF Len(existing_runs) < 3
                                            THEN Len(existing_runs) ELSE 3) |->
                                     LET run == existing_runs[i]
                                     IN Text(<<"Run ", Digit[i], ": ID=">>
                                             \o StrTokens(Attr(run, "id")) \o <<", Name=">>
                                             \o (IF HasAttr(run, "name")
                                                 THEN StrTokens(Attr(run, "name"))
                                                 ELSE <<"N/A">>)
                                             \o <<", Type=">>
                                             \o (IF HasAttr(run, "run_type")
                                                 THEN StrTokens(Attr(run, "run_type"))
                                                 ELSE <<"N/A">>))]
                                 \o <<Text(<<"Attempting to add runs: [">>
                                          \o (IF Len(run_ids) = 0 THEN <<>>
                                              ELSE <<"'">> \o run_ids[1][2] \o <<"'">>)
                                          \o (IF Len(run_ids) < 2 THEN <<>>
                                              ELSE <<", '">> \o run_ids[2][2] \o <<"'">>)
                                          \o <<"]">>)>>
                            ELSE <<>>)
                        \o <<IF Items(sub_result)["success"] = Bool(TRUE)
                             THEN Text(<<"Added ">> \o StrTokens(PyInt(Len(run_ids)))
                                       \o <<" existing runs to annotation queue">>)
                             ELSE IF "reason" \in Keys(sub_result)
                             THEN Text(<<"No existing runs found in the system">>)
                             ELSE Format("Failed to add runs to annotation queue: ",
                                         Items(sub_result)["error"])>>
                 /\ pc' = "get_runs"
       /\ UNCHANGED tool
    \* 6. Get runs from annotation queue; a failure is caught here
    \/ /\ pc = "get_runs"
       /\ calls' = Append(calls, Call("get_run_from_annotation_queue",
              [queue_id |-> Attr(args.new_queue, "id"), index |-> PyInt(0)]))
       /\ \E response \in {Raises(RemoteError), Returns(QueueRuns[1]),
                           Returns(Object([queue_run_id |-> UUID(<<"r1">>)]))} :
             /\ client' = Answer(response)
             /\ IF response[1] = "raise"
                THEN PhaseStep("annotation_queues",
                               "Testing getting runs from annotation queue...", "get_runs",
                               FailedSubResult(response[2]),
                               <<"Failed to get runs from annotation queue: ">>
                                   \o StrTokens(response[2]),
                               "delete_run")
                ELSE LET queue_run == response[2]
                         run_id == IF HasAttr(queue_run, "id")
                                   THEN Str(Attr(queue_run, "id")) ELSE Text(<<"unknown">>)
                     IN PhaseStep("annotation_queues",
                           "Testing getting runs from annotation queue...", "get_runs",
                           Dict([success |-> Bool(TRUE),
                                 run_id |-> run_id,
                                 run_type |-> IF HasAttr(queue_run, "run_type")
                                              THEN Attr(queue_run, "run_type")
                                              ELSE Text(<<"unknown">>)]),
                           <<"Retrieved run from annotation queue: ">> \o StrTokens(run_id),
                           "delete_run")
       /\ UNCHANGED <<tool, args>>
    \* 7. Delete runs from annotation queue: the projects of step 5 are
    \* probed again (projects is unbound when their listing failed); a
    \* failure is caught here
    \/ /\ pc = "delete_run"
       /\ \E deleted \in {Raises(RemoteError), Returns(None)},
             unbound_message \in
                {<<"cannot access local variable 'projects' where it is not associated with a value">>,
                 <<"local variable 'projects' referenced before assignment">>} :
          \E answers \in [1..(IF "projects" \in DOMAIN args THEN Len(args.projects[2])
                              ELSE 0) -> RunListings(1)] :
             LET unbound == "projects" \notin DOMAIN args
                 probe == IF unbound
                          THEN [calls |-> <<>>, answers |-> <<>>, runs |-> <<>>]
                          ELSE ProbeProjects(args.projects[2], answers, 1, 1)
                 existing_runs_for_delete == probe.runs
                 deleting == existing_runs_for_delete # <<>>
                 sub_result ==
                     IF unbound
                     THEN FailedSubResult(Text(unbound_message))
                     ELSE IF ~deleting
                     THEN Dict([success |-> Bool(FALSE),
                                reason |-> Text(<<"No runs available to delete">>)])
                     ELSE IF deleted[1] = "raise" THEN FailedSubResult(deleted[2])
                     ELSE Dict([success |-> Bool(TRUE)])
             IN  /\ calls' = calls \o probe.calls \o
                        (IF deleting
                         THEN <<Call("delete_run_from_annotation_queue",
                                     [queue_id |-> Attr(args.new_queue, "id"),
                                      run_id |-> Attr(existing_runs_for_delete[1], "id")])>>
                         ELSE <<>>)
                 /\ client' = [client EXCEPT !.answers =
                                  @ \o probe.answers
                                    \o (IF deleting THEN <<deleted>> ELSE <<>>)]
                 /\ PhaseStep("annotation_queues",
                       "Testing deleting runs from annotation queue...", "delete_run",
                       sub_result,
                       IF Items(sub_result)["success"] = Bool(TRUE)
                       THEN <<"Deleted run ">>
                            \o StrTokens(Attr(existing_runs_for_delete[1], "id"))
                            \o <<" from annotation queue">>
                       ELSE IF "reason" \in Keys(sub_result)
                       THEN <<"No runs available to delete from annotation queue">>
                       ELSE <<"Failed to delete run from annotation queue: ">>
                            \o StrTokens(Items(sub_result)["error"]),
                       "delete")
       /\ UNCHANGED <<tool, args>>
    \* 8. Delete the annotation queue; the results are returned
    \/ /\ pc = "delete"
       /\ calls' = Append(calls, Call("delete_annotation_queue",
                                      [queue_id |-> Attr(args.new_queue, "id")]))
       /\ \E response \in {Raises(RemoteError), Returns(None)} :
             /\ client' = Answer(response)
             /\ IF response[1] = "raise"
                THEN PhaseFailed("annotation_queues", "Testing annotation queue deletion...",
                                 "Annotation queue operations failed: ",
                                 "Annotation queue operations error: ", response[2])
                ELSE PhaseStep("annotation_queues", "Testing annotation queue deletion...",
                               "delete", Dict([success |-> Bool(TRUE)]),
                               <<"Deleted annotation queue: ">>
                                   \o StrTokens(args.queue_name) \o <<"-updated">>,
                               "returned")
       /\ UNCHANGED <<tool, args>>

QueuesSpec == Init /\ [][TestAnnotationQueuesOperations]_vars

----------------------------------------------------------------------------
(* src/examples/datasets_annotation.py: test_dataset_advanced_operations *)

\* What share_dataset may return: an object with share_token or token, a
\* dict with either key, or a value that carries no token
ShareResults ==
    {Object([share_token |-> Text(<<"tok">>)]), Object([share_token |-> None]),
     Object([share_token |-> Text(<<>>)]), Object([token |-> Text(<<"tok">>)]),
     Object(EmptyItems), Dict([share_token |-> Text(<<"tok">>)]),
     Dict([token |-> Text(<<"tok">>)]), Dict([share_token |-> Text(<<>>)]),
     Dict(EmptyItems), None}

\* share_token as the script reads it from the share result
ShareTokenAssumed(share_result) == Text(<<"tok">>)

ShareToken(share_result) ==
    LET get(key) == IF key \in Keys(share_result) THEN Items(share_result)[key] ELSE None
    IN  IF TypeOf(share_result) = "object" /\ HasAttr(share_result, "share_token")
        THEN Attr(share_result, "share_token")
        ELSE IF TypeOf(share_result) = "object" /\ HasAttr(share_result, "token")
        THEN Attr(share_result, "token")
        ELSE IF TypeOf(share_result) = "dict"
        THEN (IF Truthy(get("share_token")) THEN get("share_token") ELSE get("token"))
        ELSE None

\* The steps of test_dataset_advanced_operations, one disjunct each
TestDatasetAdvancedOperations ==
    \* results = {"advanced_datasets": {}}; 1. Test CSV upload
    \/ /\ pc = "ready"
       /\ tool' = "test_dataset_advanced_operations"
       /\ \E hex \in Uuid4Hex :
             LET name == Text(<<"test-csv-dataset-">> \o SubSeq(hex, 1, 8))
                 csv_content == <<"question,answer", "\n", "What is 2+2?,4", "\n",
                                  "What is the capital of France?,Paris">>
                 results == Dict([advanced_datasets |-> Dict(EmptyItems)])
             IN  /\ calls' = <<Call("upload_csv",
                        [csv_file |-> <<Text(<<"test_data.csv">>), <<"bytes", csv_content>>>>,
                         input_keys |-> List(<<Text(<<"question">>)>>),
                         output_keys |-> List(<<Text(<<"answer">>)>>),
                         name |-> name,
                         description |-> Text(<<"Test dataset created from CSV upload">>),
                         data_type |-> <<"DataType", "kv">>])>>
                 /\ \E response \in {Raises(RemoteError),
                                     Returns(Object([id |-> UUID(<<"d1">>), name |-> name]))} :
                       /\ client' = [answers |-> <<response>>]
                       /\ IF response[1] = "raise"
                          THEN /\ args' = EmptyItems
                               /\ result' = WithPhase(results, "advanced_datasets", "error",
                                     Format("Advanced dataset operations failed: ",
                                            response[2]))
                               /\ output' = <<Text(<<"Testing CSV upload...">>),
                                              Format("Advanced dataset operations error: ",
                                                     response[2])>>
                               /\ pc' = "returned"
                          ELSE LET csv_dataset == response[2]
                               IN  /\ args' = [csv_dataset |-> csv_dataset]
                                   /\ result' = WithPhase(results, "advanced_datasets",
                                         "csv_upload",
                                         Dict([success |-> Bool(TRUE),
                                               dataset_id |-> Str(Attr(csv_dataset, "id")),
                                               dataset_name |-> Attr(csv_dataset, "name")]))
                                   /\ output' = <<Text(<<"Testing CSV upload...">>),
                                                  Format("Created dataset from CSV: ",
                                                         Attr(csv_dataset, "name"))>>
                                   /\ pc' = "dataframe_upload"
    \* 2. Test dataframe upload; pandas may be missing
    \/ /\ pc = "dataframe_upload"
       /\ \E hex \in Uuid4Hex, imported \in BOOLEAN :
             LET name == Text(<<"test-df-dataset-">> \o SubSeq(hex, 1, 8))
                 df == <<"DataFrame",
                         [input_text |-> <<"Hello", "World", "Test">>,
                          output_text |-> <<"Hi", "Earth", "Check">>]>>
             IN  IF ~imported
                 THEN /\ PhaseFailed("advanced_datasets", "Testing dataframe upload...",
                                     "Advanced dataset operations failed: ",
                                     "Advanced dataset operations error: ",
                                     Text(<<"No module named 'pandas'">>))
                      /\ UNCHANGED <<args, calls, client>>
                 ELSE
                 /\ calls' = Append(calls, Call("upload_dataframe",
                        [df |-> df, name |-> name,
                         input_keys |-> List(<<Text(<<"input_text">>)>>),
                         output_keys |-> List(<<Text(<<"output_text">>)>>),
                         description |->
                             Text(<<"Test dataset created from dataframe upload">>)]))
                 /\ \E response \in {Raises(RemoteError),
                                     Returns(Object([id |-> UUID(<<"d2">>), name |-> name]))} :
                       /\ client' = Answer(response)
                       /\ IF response[1] = "raise"
                          THEN /\ args' = args
                               /\ PhaseFailed("advanced_datasets",
                                     "Testing dataframe upload...",
                                     "Advanced dataset operations failed: ",
                                     "Advanced dataset operations error: ", response[2])
                          ELSE LET df_dataset == response[2]
                               IN  /\ args' = SetItem(args, "df_dataset", df_dataset)
                                   /\ PhaseStep("advanced_datasets",
                                         "Testing dataframe upload...", "dataframe_upload",
                                         Dict([success |-> Bool(TRUE),
                                               dataset_id |-> Str(Attr(df_dataset, "id")),
                                               dataset_name |-> Attr(df_dataset, "name")]),
                                         <<"Created dataset from dataframe: ">>
                                             \o StrTokens(Attr(df_dataset, "name")),
                                         "share")
       /\ UNCHANGED tool
    \* 3. Test dataset sharing; a failure is caught here
    \/ /\ pc = "share"
       /\ calls' = Append(calls, Call("share_dataset",
                                      [dataset_id |-> Attr(args.csv_dataset, "id")]))
       /\ \E response \in {Raises(RemoteError)} \cup {Returns(r) : r \in ShareResults} :
             /\ client' = Answer(response)
             /\ IF response[1] = "raise"
                THEN PhaseStep("advanced_datasets", "Testing dataset sharing...", "share",
                               FailedSubResult(response[2]),
                               <<"Failed to share dataset: ">> \o StrTokens(response[2]),
                               "read_shared")
                ELSE LET share_result == response[2]
                         share_token == ShareToken(share_result)
                     IN  /\ result' = WithPhase(result, "advanced_datasets", "share",
                               Dict([success |-> Bool(TRUE),
                                     dataset_id |-> Str(Attr(args.csv_dataset, "id")),
                                     share_token |-> share_token,
                                     shared |-> Bool(TRUE)]))
                         /\ output' = output \o
                               <<Text(<<"Testing dataset sharing...">>),
                                 Text(<<"Share result type: <class '",
                                        TypeOf(share_result), "'>">>),
                                 \* dir() of an object, abridged to the attributes
                                 \* it carries
                                 Text(<<"Share result attributes: ">> \o
                                      (IF TypeOf(share_result) # "object"
                                       THEN <<"No attributes">>
                                       ELSE IF DOMAIN share_result[2] = {} THEN <<"[]">>
                                       ELSE <<"['", CHOOSE a \in DOMAIN share_result[2] : TRUE,
                                              "']">>)),
                                 Text(<<"Shared dataset: ">>
                                      \o StrTokens(Attr(args.csv_dataset, "name"))
                                      \o <<", Token: ">> \o StrTokens(share_token))>>
                         /\ pc' = "read_shared"
       /\ UNCHANGED <<tool, args>>
    \* 4. Test reading shared dataset: only with a share token; a failure is
    \* caught here
    \/ /\ pc = "read_shared"
       /\ LET share == Items(Phase(result, "advanced_datasets")["share"])
          IN  IF share["success"] = Bool(TRUE) /\ Truthy(share["share_token"])
              THEN /\ calls' = Append(calls, Call("read_shared_dataset",
                                          [share_token |-> share["share_token"]]))
                   /\ \E response \in {Raises(RemoteError), Returns(args.csv_dataset)} :
                         /\ client' = Answer(response)
                         /\ IF response[1] = "raise"
                            THEN PhaseStep("advanced_datasets",
                                    "Testing reading shared dataset...", "read_shared",
                                    FailedSubResult(response[2]),
                                    <<"Failed to read shared dataset: ">>
                                        \o StrTokens(response[2]),
                                    "unshare")
                            ELSE LET read_shared == response[2]
                                 IN PhaseStep("advanced_datasets",
                                       "Testing reading shared dataset...", "read_shared",
                                       Dict([success |-> Bool(TRUE),
                                             dataset_id |-> Str(Attr(read_shared, "id")),
                                             dataset_name |-> Attr(read_shared, "name")]),
                                       <<"Read shared dataset: ">>
                                           \o StrTokens(Attr(read_shared, "name")),
                                       "unshare")
              ELSE /\ PhaseStep("advanced_datasets", "Testing reading shared dataset...",
                                "read_shared",
                                Dict([success |-> Bool(FALSE),
                                      error |-> Text(<<"No share token available">>)]),
                                <<"No share token available for reading shared dataset">>,
                                "unshare")
                   /\ UNCHANGED <<calls, client>>
       /\ UNCHANGED <<tool, args>>
    \* 5. Test unsharing dataset; a failure is caught here
    \/ /\ pc = "unshare"
       /\ calls' = Append(calls, Call("unshare_dataset",
                                      [dataset_id |-> Attr(args.csv_dataset, "id")]))
       /\ \E response \in {Raises(RemoteError), Returns(None)} :
             /\ client' = Answer(response)
             /\ IF response[1] = "raise"
                THEN PhaseStep("advanced_datasets", "Testing dataset unsharing...",
                               "unshare", FailedSubResult(response[2]),
                               <<"Failed to unshare dataset: ">> \o StrTokens(response[2]),
                               "versioning")
                ELSE PhaseStep("advanced_datasets", "Testing dataset unsharing...",
                               "unshare",
                               Dict([success |-> Bool(TRUE),
                                     dataset_id |-> Str(Attr(args.csv_dataset, "id")),
                                     shared |-> Bool(FALSE)]),
                               <<"Unshared dataset: ">>
                                   \o StrTokens(Attr(args.csv_dataset, "name")),
                               "versioning")
       /\ UNCHANGED <<tool, args>>
    \* 6. Test dataset versioning; a version may lack version and created_at;
    \* a failure is caught here
    \/ /\ pc = "versioning"
       /\ calls' = Append(calls, Call("list_dataset_versions",
                                      [dataset_id |-> Attr(args.csv_dataset, "id")]))
       /\ \E response \in {Raises(RemoteError)} \cup
              {Returns(List(versions)) :
                  versions \in SeqsUpTo({Object([version |-> PyInt(1),
                                                 created_at |-> DateTime(1, 0)]),
                                         Object([tags |-> List(<<>>)])}, MaxVersions)} :
             /\ client' = Answer(response)
             /\ IF response[1] = "raise"
                THEN PhaseStep("advanced_datasets", "Testing dataset versioning...",
                               "versioning", FailedSubResult(response[2]),
                               <<"Failed to get dataset versions: ">>
                                   \o StrTokens(response[2]),
                               "cleanup")
                ELSE LET versions == response[2][2]
                         get(v, a) == IF HasAttr(v, a) THEN Str(Attr(v, a))
                                      ELSE Text(<<"unknown">>)
                     IN PhaseStep("advanced_datasets", "Testing dataset versioning...",
                           "versioning",
                           Dict([success |-> Bool(TRUE),
                                 version_count |-> PyInt(Len(versions)),
                                 version_info |->
                                     List([i \in 1..Len(versions) |->
                                              Dict([version |-> get(versions[i], "version"),
                                                    created_at |->
                                                        get(versions[i], "created_at")])])]),
                           <<"Found ">> \o StrTokens(PyInt(Len(versions)))
                               \o <<" versions for dataset">>,
                           "cleanup")
       /\ UNCHANGED <<tool, args>>
    \* Clean up: both datasets are deleted, the second when the first
    \* deletion returned; the results are returned
    \/ /\ pc = "cleanup"
       /\ \E first \in {Raises(RemoteError), Returns(None)},
             second \in {Raises(RemoteError), Returns(None)} :
             LET delete(dataset) == Call("delete_dataset",
                                         [dataset_id |-> Attr(dataset, "id")])
                 made == IF first[1] = "raise" THEN <<delete(args.csv_dataset)>>
                         ELSE <<delete(args.csv_dataset), delete(args.df_dataset)>>
                 answered == IF first[1] = "raise" THEN <<first>> ELSE <<first, second>>
                 failure == answered[Len(answered)]
             IN  /\ calls' = calls \o made
                 /\ client' = [client EXCEPT !.answers = @ \o answered]
                 /\ IF failure[1] = "raise"
                    THEN /\ result' = WithPhase(result, "advanced_datasets", "error",
                               Format("Advanced dataset operations failed: ", failure[2]))
                         /\ output' = Append(output,
                               Format("Advanced dataset operations error: ", failure[2]))
                    ELSE /\ result' = result
                         /\ output' = Append(output,
                               Text(<<"Cleaned up advanced test datasets">>))
       /\ pc' = "returned"
       /\ UNCHANGED <<tool, args>>

AdvancedSpec == Init /\ [][TestDatasetAdvancedOperations]_vars

----------------------------------------------------------------------------
(* src/examples/datasets_annotation.py: main *)

\* The four test functions in the order main calls them, each with the key
\* of its results, the heading printed before it, the title of its summary
\* line (category.replace('_', ' ').title()), the prefix of its error, and
\* two of the sub-results it records, the second a failure caught locally
\* where the function has one
DriverPhases ==
    <<[function |-> "test_datasets_operations", key |-> "datasets",
       heading |-> "\n1. Testing Dataset Operations", title |-> "Datasets",
       failed |-> "Dataset operations failed: ",
       first |-> <<"update_tag", Dict([success |-> Bool(TRUE)])>>,
       second |-> <<"list_existing", Dict([count |-> PyInt(0),
                                           dataset_names |-> List(<<>>)])>>],
      [function |-> "test_examples_operations", key |-> "examples",
       heading |-> "\n2. Testing Example Operations", title |-> "Examples",
       failed |-> "Example operations failed: ",
       first |-> <<"delete_single", Dict([success |-> Bool(TRUE)])>>,
       second |-> <<"update", FailedSubResult(RemoteError)>>],
      [function |-> "test_annotation_queues_operations", key |-> "annotation_queues",
       heading |-> "\n3. Testing Annotation Queue Operations",
       title |-> "Annotation Queues",
       failed |-> "Annotation queue operations failed: ",
       first |-> <<"delete", Dict([success |-> Bool(TRUE)])>>,
       second |-> <<"update", FailedSubResult(RemoteError)>>],
      [function |-> "test_dataset_advanced_operations", key |-> "advanced_datasets",
       heading |-> "\n4. Testing Advanced Dataset Operations",
       title |-> "Advanced Datasets",
       failed |-> "Advanced dataset operations failed: ",
       first |-> <<"versioning", Dict([success |-> Bool(TRUE),
                                       version_count |-> PyInt(0),
                                       version_info |-> List(<<>>)])>>,
       second |-> <<"share", FailedSubResult(RemoteError)>>]>>

\* What a test function may return: its results under its key, which hold
\* the error of the phase, sub-results of its steps (abridged here to two of
\* them), or both.  A test function catches every Exception, so it always
\* returns
PhaseReturns(phase) ==
    LET error == "error" :> Format(phase.failed, RemoteError)
        first == phase.first[1] :> phase.first[2]
        second == phase.second[1] :> phase.second[2]
    IN  {Dict(phase.key :> Dict(sub)) :
            sub \in {error, first @@ second, second @@ error, first @@ second @@ error}}

\* d.update(e)
DictUpdateReplacing(d, e) == e

DictUpdate(d, e) ==
    Dict([k \in Keys(d) \cup Keys(e) |-> IF k \in Keys(e) THEN Items(e)[k] ELSE Items(d)[k]])

\* The steps of main, one disjunct each
Main ==
    \* all_results = {"timestamp": ..., "api_key_configured": bool(api_key)}
    \/ /\ pc = "ready"
       /\ tool' = "datasets_annotation.main"
       /\ \E api_key \in {None, Text(<<>>), Text(<<"key">>)},
             now \in {DateTime(1, 0), DateTime(1, 5)},
             dirname \in {<<>>, <<"src/examples">>} :
             /\ args' = [api_key |-> api_key, done |-> 0, dirname |-> dirname]
             /\ result' = Dict([timestamp |-> Isoformat(now),
                                api_key_configured |-> Bool(Truthy(api_key))])
       /\ output' = <<Text(<<"Starting LangSmith API Testing for Datasets, Examples, and Annotation Queues">>),
                      Text([i \in 1..80 |-> "="])>>
       /\ client' = [answers |-> <<>>]
       /\ calls' = <<>>
       /\ pc' = "phases"
    \* all_results.update(test_X()), for the next of the four test functions
    \/ /\ pc = "phases"
       /\ LET phase == DriverPhases[args.done + 1]
          IN  /\ calls' = Append(calls, Call(phase.function, EmptyItems))
              /\ output' = output \o <<Text(<<phase.heading>>), Text([i \in 1..40 |-> "-"])>>
              /\ \E returned \in PhaseReturns(phase) :
                    /\ client' = Answer(Returns(returned))
                    /\ result' = DictUpdate(result, returned)
       /\ args' = [args EXCEPT !.done = @ + 1]
       /\ pc' = IF args.done + 1 = Len(DriverPhases) THEN "save" ELSE "phases"
       /\ UNCHANGED tool
    \* Save results and print the summary
    \/ /\ pc = "save"
       /\ LET output_path == (IF args.dirname = <<>> THEN <<>> ELSE args.dirname \o <<"/">>)
                             \o <<"datasets_annotation_results.json">>
              IsSubResult(v) == TypeOf(v) = "dict"
              \* sub-results with a true success, and with a success at all
              success_count(results) ==
                  Cardinality({k \in Keys(results) :
                                  /\ IsSubResult(Items(results)[k])
                                  /\ "success" \in Keys(Items(results)[k])
                                  /\ Truthy(Items(Items(results)[k])["success"])})
              total_count(results) ==
                  Cardinality({k \in Keys(results) :
                                  /\ IsSubResult(Items(results)[k])
                                  /\ "success" \in Keys(Items(results)[k])})
          IN  /\ calls' = calls \o
                     <<Call("open", [file |-> Text(output_path), mode |-> Text(<<"w">>)]),
                       Call("json.dump", [obj |-> result, indent |-> PyInt(2),
                                          default |-> "str"])>>
              /\ client' = [client EXCEPT !.answers = @ \o <<Returns(None), Returns(None)>>]
              /\ output' = output \o
                     <<Text(<<"\nTest results saved to: ">> \o output_path),
                       Text(<<"\nTesting completed!">>), Text(<<"\nSummary:">>),
                       Text([i \in 1..20 |-> "-"])>> \o
                     [i \in 1..Len(DriverPhases) |->
                         LET results == Items(result)[DriverPhases[i].key]
                         IN Text(<<DriverPhases[i].title, ": ">>
                                 \o StrTokens(PyInt(success_count(results))) \o <<"/">>
                                 \o StrTokens(PyInt(total_count(results)))
                                 \o <<" operations successful">>)]
       /\ pc' = "returned"
       /\ UNCHANGED <<tool, args, result>>

DriverSpec == Init /\ [][Main]_vars

----------------------------------------------------------------------------
(* Properties *)

Called(name) == pc # "ready" /\ tool = name

NeitherProvided ==
    ErrorPayload(Text(<<"Error: Either project_name or trace_id must be provided.">>))

\* C1: when project_name and trace_id are each None or the text "null",
\* fetch_trace_tool and get_project_runs_stats_tool return exactly the
\* "Either project_name or trace_id must be provided" payload and make no
\* call on the client.
C1_NeitherProvided ==
    /\ (Called("fetch_trace_tool") \/ Called("get_project_runs_stats_tool"))
    /\ args.project_name \in {None, Null}
    /\ args.trace_id \in {None, Null}
    => /\ pc = "returned"
       /\ result = NeitherProvided
       /\ calls = <<>>

C1_Witness ==
    /\ Called("get_project_runs_stats_tool")
    /\ args.project_name = Null
    /\ args.trace_id = Null
    /\ result = NeitherProvided

\* C2: get_project_runs_stats_tool called with a non-empty trace_id and with
\* project_name None or "null" asks the client for the statistics of that
\* trace, with no project-name list, and returns the statistics rather than
\* an error payload.
C2_TraceOnlyStats ==
    /\ Called("get_project_runs_stats_tool")
    /\ args.project_name \in {None, Null}
    /\ Truthy(args.trace_id)
    /\ args.trace_id # Null
    => /\ pc = "returned"
       /\ calls = <<Call("get_run_stats",
                         [project_names |-> None, trace |-> args.trace_id])>>
       /\ (client.get_run_stats[1] = "return" /\ TypeOf(client.get_run_stats[2]) = "dict"
           => "error" \notin Keys(result))

\* C3: whatever the arguments and whatever the client does (return a value,
\* return nothing, raise), each of the six tool functions ends by returning
\* a dictionary; no exception leaves the function.
C3_AlwaysReturnsMapping ==
    pc # "ready" => pc = "returned" /\ TypeOf(result) = "dict"

C3_Witness ==
    /\ Called("list_examples_tool")
    /\ client.list_examples = Raises(RemoteError)
    /\ pc = "returned"
    /\ result = ErrorPayload(Text(<<"Error fetching examples: ", "remote failure">>))

\* The text after the slash when the name has exactly one slash, else the name
ExpectedProjectName(tokens) ==
    LET slashes == {i \in 1..Len(tokens) : tokens[i] = "/"}
    IN  IF Cardinality(slashes) = 1
        THEN SubSeq(tokens, (CHOOSE i \in slashes : TRUE) + 1, Len(tokens))
        ELSE tokens

\* C5: for a non-empty project_name (other than the text "null", which counts
\* as omitted), get_project_runs_stats_tool resolves the project name to the
\* text after the slash when the name has exactly one slash and to the name
\* itself otherwise, passes it to the client as a one-element list, and when
\* the client answers with statistics the result has project_name equal to
\* the resolved name and no run_facets key.
C5_QualifiedName ==
    /\ Called("get_project_runs_stats_tool")
    /\ Truthy(args.project_name)
    /\ args.project_name # Null
    => LET expected == Text(ExpectedProjectName(args.project_name[2]))
       IN  /\ pc = "returned"
           /\ Len(calls) = 1
           /\ calls[1].method = "get_run_stats"
           /\ calls[1].kwargs.project_names = List(<<expected>>)
           /\ (client.get_run_stats[1] = "return" /\ TypeOf(client.get_run_stats[2]) = "dict"
               => /\ Keys(result) = (Keys(client.get_run_stats[2]) \ {"run_facets"})
                                    \cup {"project_name"}
                  /\ Items(result)["project_name"] = expected)

C5_Witness ==
    /\ Called("get_project_runs_stats_tool")
    /\ args.project_name = Text(<<"a", "/", "a">>)
    /\ client.get_run_stats[1] = "return"
    /\ TypeOf(client.get_run_stats[2]) = "dict"
    /\ "run_facets" \in Keys(client.get_run_stats[2])
    /\ "run_facets" \notin Keys(result)
    /\ Items(result)["project_name"] = Text(<<"a">>)

RunIdRequired == ErrorPayload(Text(<<"Error: run_id must be provided.">>))

\* C6: fetch_run_tool called with a run_id that is None, empty or the text
\* "null" returns exactly the "run_id must be provided" payload and makes no
\* call on the client.
C6_RunIdRequired ==
    /\ Called("fetch_run_tool")
    /\ args.run_id \in {None, Text(<<>>), Null}
    => /\ pc = "returned"
       /\ result = RunIdRequired
       /\ calls = <<>>

C6_Witness ==
    /\ Called("fetch_run_tool")
    /\ args.run_id = Null
    /\ result = RunIdRequired
    /\ calls = <<>>

\* The operation did not fail: the arguments pass validation, every client
\* call returned what the function expects, and what was looked for was found
ReturnedList(response) == response[1] = "return" /\ TypeOf(response[2]) = "list"

SuccessfulPath ==
    /\ pc = "returned"
    /\ CASE tool = "fetch_trace_tool" ->
              /\ \/ Truthy(args.project_name) /\ args.project_name # Null
                 \/ Truthy(args.trace_id) /\ args.trace_id # Null
              /\ ReturnedList(client.list_runs)
              /\ client.list_runs[2][2] # <<>>
         [] tool = "get_project_runs_stats_tool" ->
              /\ TypeOf(args.project_name) = "str"
              /\ args.project_name # Null
              /\ Truthy(args.project_name) \/ (Truthy(args.trace_id) /\ args.trace_id # Null)
              /\ client.get_run_stats[1] = "return"
              /\ TypeOf(client.get_run_stats[2]) = "dict"
         [] tool = "fetch_run_tool" ->
              /\ Truthy(args.run_id) /\ args.run_id # Null
              /\ client.read_run[1] = "return"
              /\ TypeOf(client.read_run[2]) = "object"
         [] tool = "get_thread_history_tool" ->
              /\ ReturnedList(client.list_runs)
              /\ client.list_runs[2][2] # <<>>
              /\ LET latest_run == Latest(client.list_runs[2][2])
                 IN  InputMessages(latest_run) \o OutputMessages(latest_run) # <<>>
         [] tool = "list_datasets_tool" -> ReturnedList(client.list_datasets)
         [] tool = "list_examples_tool" -> ReturnedList(client.list_examples)
         [] OTHER -> FALSE

\* C4 as stated: a dictionary returned on the successful path of a tool
\* function has no error key.
C4_ErrorKeyOnlyOnFailure ==
    SuccessfulPath => "error" \notin Keys(result)

\* C4, amended: on the successful path the dictionaries of list_datasets_tool,
\* list_examples_tool and get_thread_history_tool have no error key, the
\* dictionary of get_project_runs_stats_tool has one only if the statistics
\* the client returned had one, and those of fetch_trace_tool and
\* fetch_run_tool always have one, holding the error attribute of the run
\* (None for a run that did not fail); a failure is the dictionary whose
\* only key is error.
C4_ErrorKeyIsRunError ==
    /\ SuccessfulPath =>
          /\ Keys(result) # {"error"}
          /\ CASE tool = "fetch_trace_tool" ->
                    /\ "error" \in Keys(result)
                    /\ Items(result)["error"] = Attr(client.list_runs[2][2][1], "error")
               [] tool = "fetch_run_tool" ->
                    /\ "error" \in Keys(result)
                    /\ Items(result)["error"] = Attr(client.read_run[2], "error")
               [] tool = "get_project_runs_stats_tool" ->
                    "error" \in Keys(result) <=> "error" \in Keys(client.get_run_stats[2])
               [] OTHER -> "error" \notin Keys(result)
    /\ pc = "returned" /\ ~SuccessfulPath => Keys(result) = {"error"}

C4_Witness ==
    /\ SuccessfulPath
    /\ tool = "fetch_trace_tool"
    /\ args.trace_id = Text(<<"t">>)
    /\ Attr(client.list_runs[2][2][1], "error") = None
    /\ Keys(result) # {"error"}
    /\ Items(result)["error"] = None

MainRunFields ==
    {"id", "name", "run_type", "status", "start_time", "end_time", "latency_ms", "inputs",
     "outputs", "error", "total_tokens", "prompt_tokens", "completion_tokens", "total_cost",
     "prompt_cost", "completion_cost", "tags", "trace_id", "parent_run_id"}

\* C7: in fetch_run_tool, when read_run succeeds but the listing of the
\* trace's runs raises, the result carries the main run's fields, child_runs
\* is the empty list, child_run_count is 0, child_runs_error is present, and
\* the result is not an "Error fetching run" payload.
C7_ChildListingFails ==
    /\ Called("fetch_run_tool")
    /\ args.run_id = Text(<<"r">>)
    /\ client.read_run[1] = "return"
    /\ TypeOf(client.read_run[2]) = "object"
    /\ client.list_runs[1] = "raise"
    => /\ pc = "returned"
       /\ Keys(result) = MainRunFields \cup {"child_runs", "child_run_count", "child_runs_error"}
       /\ Items(result)["id"] = Text(<<"r">>)
       /\ Items(result)["name"] = Attr(client.read_run[2], "name")
       /\ Items(result)["error"] = Attr(client.read_run[2], "error")
       /\ Items(result)["child_runs"] = List(<<>>)
       /\ Items(result)["child_run_count"] = PyInt(0)
       /\ Items(result)["child_runs_error"] =
             Text(<<"Could not fetch child runs: ", "remote failure">>)

C7_Witness ==
    /\ Called("fetch_run_tool")
    /\ client.read_run[1] = "return"
    /\ TypeOf(client.read_run[2]) = "object"
    /\ client.list_runs[1] = "raise"
    /\ pc = "returned"
    /\ "child_runs_error" \in Keys(result)
    /\ Items(result)["child_run_count"] = PyInt(0)

\* The listing of the trace's runs came back and fetch_run_tool returned
ChildrenListed ==
    /\ Called("fetch_run_tool")
    /\ pc = "returned"
    /\ args.run_id = Text(<<"r">>)
    /\ client.read_run[1] = "return"
    /\ TypeOf(client.read_run[2]) = "object"
    /\ ReturnedList(client.list_runs)

\* Positions in the listing of the runs whose parent, as text, is the
\* requested run identifier, as text
DirectPositions ==
    LET listed == client.list_runs[2][2]
    IN  {i \in 1..Len(listed) :
            /\ "parent_run_id" \in DOMAIN listed[i][2]
            /\ TypeOf(listed[i][2]["parent_run_id"]) = "UUID"
            /\ StrTokens(listed[i][2]["parent_run_id"]) = StrTokens(args.run_id)}

\* child_runs holds the projection of each direct child, once, and nothing else
ExactlyDirectChildren ==
    LET listed == client.list_runs[2][2]
        kids == Items(result)["child_runs"][2]
    IN  /\ Len(kids) = Cardinality(DirectPositions)
        /\ \A i \in DirectPositions : \E k \in 1..Len(kids) : kids[k] = ChildInfo(listed[i])
        /\ Items(result)["child_run_count"] = PyInt(Len(kids))

\* The start time of the listed run a returned child was projected from
\* (None when that run has none)
StartOf(kid) ==
    LET listed == client.list_runs[2][2]
        i == CHOOSE j \in 1..Len(listed) : Str(Attr(listed[j], "id")) = Items(kid)["id"]
    IN  AttrOr(listed[i], "start_time", None)

\* C8: child_runs holds exactly the projections of the listed runs whose
\* parent is the requested run, and the returned children are in ascending
\* order of start time.
C8_DirectChildrenByStartTime ==
    ChildrenListed =>
       /\ ExactlyDirectChildren
       /\ LET kids == Items(result)["child_runs"][2]
          IN  \A k1, k2 \in 1..Len(kids) :
                 k1 < k2 /\ StartOf(kids[k1]) # None /\ StartOf(kids[k2]) # None
                 => ~DateTimeLess(StartOf(kids[k2]), StartOf(kids[k1]))

\* The text a child is ordered by: its stringified start time, the empty
\* text when it has none
OrderingText(kid) ==
    IF Items(kid)["start_time"] = None THEN <<>> ELSE Items(kid)["start_time"][2]

\* C9: the sort of the direct children completes, also when children lack a
\* start time, and all direct children are returned in ascending order of
\* the stringified start time, a missing start time ordered as the empty
\* text.
C9_SortWithMissingStartTime ==
    ChildrenListed =>
       /\ "child_runs_error" \notin Keys(result)
       /\ ExactlyDirectChildren
       /\ LET kids == Items(result)["child_runs"][2]
          IN  \A k1, k2 \in 1..Len(kids) :
                 k1 < k2 => ~LexLess(OrderingText(kids[k2]), OrderingText(kids[k1]))

\* The run has input messages and an assistant message in choices[0]
CompletionShaped(run) ==
    /\ "inputs" \in DOMAIN run[2] /\ "outputs" \in DOMAIN run[2]
    /\ "messages" \in Keys(run[2]["inputs"])
    /\ TypeOf(run[2]["outputs"]) = "dict"
    /\ "choices" \in Keys(run[2]["outputs"])
    /\ Len(Items(run[2]["outputs"])["choices"][2]) > 0
    /\ "message" \in Keys(Items(run[2]["outputs"])["choices"][2][1])

\* Its input messages followed by the assistant message of choices[0]
Conversation(run) ==
    Items(run[2]["inputs"])["messages"][2]
    \o <<Items(Items(run[2]["outputs"])["choices"][2][1])["message"]>>

\* Positions of the runs no other run started after
MostRecent(runs) ==
    {i \in 1..Len(runs) :
        \A j \in 1..Len(runs) : ~DateTimeLess(runs[i][2]["start_time"], runs[j][2]["start_time"])}

\* C10: for a non-empty list of matching runs whose most recent run has input
\* messages and an assistant message in choices[0], get_thread_history_tool
\* returns {"result": M} with M the input messages of the most recent run, in
\* order, followed by that assistant message; messages of older runs do not
\* appear.
C10_LatestRunMessages ==
    /\ Called("get_thread_history_tool")
    /\ ReturnedList(client.list_runs)
    /\ client.list_runs[2][2] # <<>>
    /\ \A i \in MostRecent(client.list_runs[2][2]) : CompletionShaped(client.list_runs[2][2][i])
    => /\ pc = "returned"
       /\ \E i \in MostRecent(client.list_runs[2][2]) :
             result = Dict([result |-> List(Conversation(client.list_runs[2][2][i]))])

C10_Witness ==
    /\ Called("get_thread_history_tool")
    /\ ReturnedList(client.list_runs)
    /\ Len(client.list_runs[2][2]) = 2
    /\ MostRecent(client.list_runs[2][2]) = {1}
    /\ Len(InputMessages(client.list_runs[2][2][2])) = 3
    /\ result = Dict([result |-> List(<<Message("user", "hello"), Message("assistant", "hi")>>)])

\* The runs get_thread_history_tool was given by the client
ThreadListed ==
    /\ Called("get_thread_history_tool")
    /\ ReturnedList(client.list_runs)
    /\ client.list_runs[2][2] # <<>>

\* choices[0].message when the output has it, else the direct message when
\* the output has one, else nothing
PreferredAssistant(run) ==
    IF "outputs" \notin DOMAIN run[2] \/ TypeOf(run[2]["outputs"]) # "dict" THEN <<>>
    ELSE LET outputs == Items(run[2]["outputs"])
             usable == /\ "choices" \in DOMAIN outputs
                       /\ Len(outputs["choices"][2]) > 0
                       /\ "message" \in Keys(outputs["choices"][2][1])
         IN  IF usable THEN <<Items(outputs["choices"][2][1])["message"]>>
             ELSE IF "message" \in DOMAIN outputs THEN <<outputs["message"]>>
             ELSE <<>>

\* C11: the assistant message taken from the latest run's output is
\* choices[0].message when that is present and otherwise the direct message
\* when that is present, also for an output whose choices field has no
\* usable first message; it is appended after the input messages.
C11_DirectMessageFallback ==
    ThreadListed =>
       \E i \in MostRecent(client.list_runs[2][2]) :
          LET run == client.list_runs[2][2][i]
              expected == InputMessages(run) \o PreferredAssistant(run)
          IN  /\ pc = "returned"
              /\ expected # <<>> => result = Dict([result |-> List(expected)])

\* The run has no input messages and its output has neither choices nor message
NoMessagesAnywhere(run) ==
    /\ "messages" \notin Keys(run[2]["inputs"])
    /\ \/ "outputs" \notin DOMAIN run[2]
       \/ TypeOf(run[2]["outputs"]) # "dict"
       \/ {"choices", "message"} \cap Keys(run[2]["outputs"]) = {}

\* C12: get_thread_history_tool returns the "No messages found in the run
\* for thread <thread_id>" payload when the selected run has no input
\* messages and its output has neither choices nor message, the "No runs
\* found for thread <thread_id> in project <project_name>" payload when the
\* listing is empty, and {"result": ...} only with a non-empty list.
C12_NoRunsNoMessages ==
    Called("get_thread_history_tool") =>
       /\ pc = "returned"
       /\ ReturnedList(client.list_runs) /\ client.list_runs[2][2] = <<>>
          => result = ErrorPayload(Text(<<"No runs found for thread ">> \o args.thread_id[2]
                                        \o <<" in project ">> \o args.project_name[2]))
       /\ ThreadListed
          /\ (\A i \in MostRecent(client.list_runs[2][2]) :
                 NoMessagesAnywhere(client.list_runs[2][2][i]))
          => result = ErrorPayload(Text(<<"No messages found in the run for thread ">>
                                        \o args.thread_id[2]))
       /\ "result" \in Keys(result)
          => /\ Keys(result) = {"result"}
             /\ TypeOf(Items(result)["result"]) = "list"
             /\ Items(result)["result"][2] # <<>>

C12_Witness ==
    /\ ThreadListed
    /\ Len(client.list_runs[2][2]) = 2
    /\ MostRecent(client.list_runs[2][2]) = {2}
    /\ NoMessagesAnywhere(client.list_runs[2][2][2])
    /\ ~NoMessagesAnywhere(client.list_runs[2][2][1])
    /\ result = ErrorPayload(Text(<<"No messages found in the run for thread ", "th">>))

DatasetKeys ==
    {"id", "name", "inputs_schema_definition", "outputs_schema_definition", "description",
     "data_type", "example_count", "session_count", "created_at", "modified_at",
     "last_session_start_time"}

ExampleKeys ==
    {"id", "inputs", "outputs", "metadata", "created_at", "modified_at", "dataset_id"}

\* out is one dictionary per object, in the order of the objects, each with
\* exactly the keys, None where the object lacks the attribute
ProjectedInOrder(objs, out, keys) ==
    /\ Len(out) = Len(objs)
    /\ \A k \in 1..Len(objs) :
          /\ Keys(out[k]) = keys
          /\ \A a \in keys :
                /\ a \notin DOMAIN objs[k][2] => Items(out[k])[a] = None
                /\ a \in DOMAIN objs[k][2] =>
                      IF a \in {"created_at", "modified_at"}
                      THEN (Items(out[k])[a] = None) <=> (objs[k][2][a] = None)
                      ELSE Items(out[k])[a] = objs[k][2][a]

\* C13: for every sequence of objects the client returns, list_datasets_tool
\* and list_examples_tool return one dictionary per object, in the same
\* order, each with exactly the 11 (datasets) or 7 (examples) attribute
\* keys, None standing for an attribute the object lacks, and total_count
\* equal to the length of the returned list.
C13_OneDictionaryPerObject ==
    /\ Cardinality(DatasetKeys) = 11 /\ Cardinality(ExampleKeys) = 7
    /\ Called("list_datasets_tool") /\ ReturnedList(client.list_datasets)
       => /\ pc = "returned"
          /\ Keys(result) = {"datasets", "total_count"}
          /\ ProjectedInOrder(client.list_datasets[2][2], Items(result)["datasets"][2],
                              DatasetKeys)
          /\ Items(result)["total_count"] = PyInt(Len(Items(result)["datasets"][2]))
    /\ Called("list_examples_tool") /\ ReturnedList(client.list_examples)
       => /\ pc = "returned"
          /\ Keys(result) = {"examples", "total_count"}
          /\ ProjectedInOrder(client.list_examples[2][2], Items(result)["examples"][2],
                              ExampleKeys)
          /\ Items(result)["total_count"] = PyInt(Len(Items(result)["examples"][2]))

C13_Witness ==
    /\ Called("list_datasets_tool")
    /\ ReturnedList(client.list_datasets)
    /\ Len(client.list_datasets[2][2]) = 2
    /\ "modified_at" \notin DOMAIN client.list_datasets[2][2][1][2]
    /\ "modified_at" \in DOMAIN client.list_datasets[2][2][2][2]
    /\ Items(result)["total_count"] = PyInt(2)
    /\ Items(Items(result)["datasets"][2][1])["modified_at"] = None
    /\ Items(Items(result)["datasets"][2][2])["modified_at"] # None

\* C14: for a dataset object whose created_at and modified_at are
\* timestamps, the dictionary list_datasets_tool projects holds for both the
\* ISO-8601 text of the timestamp, and every other field, also
\* last_session_start_time, holds the attribute value unchanged.
C14_IsoTimestamps ==
    Called("list_datasets_tool") /\ ReturnedList(client.list_datasets) =>
       /\ pc = "returned"
       /\ \A k \in 1..Len(client.list_datasets[2][2]) :
             LET obj == client.list_datasets[2][2][k][2]
                 out == Items(Items(result)["datasets"][2][k])
             IN  /\ {"created_at", "modified_at"} \subseteq DOMAIN obj
                 /\ TypeOf(obj["created_at"]) = "datetime"
                 /\ TypeOf(obj["modified_at"]) = "datetime"
                 => /\ out["created_at"] = Isoformat(obj["created_at"])
                    /\ out["modified_at"] = Isoformat(obj["modified_at"])
                    /\ \A a \in (DOMAIN obj) \ {"created_at", "modified_at"} :
                          out[a] = obj[a]

C14_Witness ==
    /\ Called("list_datasets_tool")
    /\ ReturnedList(client.list_datasets)
    /\ Len(client.list_datasets[2][2]) = 1
    /\ client.list_datasets[2][2][1][2]["created_at"] = DateTime(0, 5)
    /\ LET out == Items(Items(result)["datasets"][2][1])
       IN  /\ out["created_at"] = Text(<<"D", "T", "0", ".", "5">>)
           /\ out["modified_at"] = Text(<<"D", "T", "1">>)
           /\ out["last_session_start_time"] = DateTime(1, 5)

\* What the claim has the listing call receive for a parameter: the value
\* the caller gave, 20 for a limit list_datasets_tool was not given, None for
\* any other parameter that was not given
PassedValue(p) ==
    IF args[p] # Omitted THEN args[p]
    ELSE IF tool = "list_datasets_tool" /\ p = "limit" THEN PyInt(20)
    ELSE None

\* C15: the keyword arguments of the listing call of list_datasets_tool and
\* list_examples_tool are exactly the parameters whose value is not None,
\* with limit 20 for list_datasets_tool when the caller gives none and no
\* default for list_examples_tool; no parameter is passed as None.
C15_OnlySuppliedParameters ==
    Called("list_datasets_tool") \/ Called("list_examples_tool") =>
       /\ Len(calls) = 1
       /\ calls[1].method = (IF tool = "list_datasets_tool" THEN "list_datasets"
                             ELSE "list_examples")
       /\ DOMAIN calls[1].kwargs = {p \in DOMAIN args : PassedValue(p) # None}
       /\ \A p \in DOMAIN calls[1].kwargs :
             calls[1].kwargs[p] = PassedValue(p) /\ calls[1].kwargs[p] # None

C15_Witness ==
    /\ Called("list_datasets_tool")
    /\ args.limit = Omitted
    /\ args.dataset_ids = None
    /\ args.data_type = Text(<<"kv">>)
    /\ args.dataset_name = Omitted
    /\ DOMAIN calls[1].kwargs = {"data_type", "limit"}
    /\ calls[1].kwargs["limit"] = PyInt(20)

C15_ExamplesWitness ==
    /\ Called("list_examples_tool")
    /\ args.limit = Omitted
    /\ args.offset = PyInt(0)
    /\ args.dataset_name = None
    /\ args.dataset_id = Omitted
    /\ DOMAIN calls[1].kwargs = {"offset"}

\* C16: once validation has passed, fetch_trace_tool makes one list_runs
\* call for root runs with limit 1, with the project name and/or the
\* one-element id list as supplied, and returns the "No runs found for
\* project_name: <project_name>" payload for an empty listing, the "Error
\* fetching last trace: <message>" payload when the call raises, and
\* otherwise a flat dictionary of the first run in which trace_id and id are
\* both the text of the run's identifier and total_cost is text.
C16_FetchTrace ==
    Called("fetch_trace_tool") =>
       LET project_name == IF args.project_name = Null THEN None ELSE args.project_name
           trace_id == IF args.trace_id = Null THEN None ELSE args.trace_id
           given(v) == v # None /\ v # Text(<<>>)
       IN  given(project_name) \/ given(trace_id) =>
              /\ pc = "returned"
              /\ Len(calls) = 1
              /\ calls[1].method = "list_runs"
              /\ calls[1].kwargs.is_root = TRUE
              /\ calls[1].kwargs.limit = 1
              /\ calls[1].kwargs.project_name = (IF given(project_name) THEN project_name ELSE None)
              /\ calls[1].kwargs.id = (IF given(trace_id) THEN List(<<trace_id>>) ELSE None)
              /\ client.list_runs[1] = "raise" =>
                    result = ErrorPayload(Text(<<"Error fetching last trace: ", "remote failure">>))
              /\ ReturnedList(client.list_runs) /\ client.list_runs[2][2] = <<>> =>
                    result = ErrorPayload(Text(<<"No runs found for project_name: ">> \o
                                 (IF project_name = None THEN <<"N", "o", "n", "e">>
                                  ELSE project_name[2])))
              /\ ReturnedList(client.list_runs) /\ client.list_runs[2][2] # <<>> =>
                    /\ Keys(result) = {"trace_id", "run_type", "id", "error", "inputs", "outputs",
                                       "total_tokens", "total_cost", "feedback_stats", "app_path",
                                       "thread_id"}
                    /\ Items(result)["id"] = Text(client.list_runs[2][2][1][2]["id"][2])
                    /\ Items(result)["trace_id"] = Items(result)["id"]
                    /\ Items(result)["total_cost"] = Text(<<"1">>)
                    /\ Items(result)["run_type"] = client.list_runs[2][2][1][2]["run_type"]

C16_Witness ==
    /\ Called("fetch_trace_tool")
    /\ args.project_name = Null
    /\ args.trace_id = Text(<<"t">>)
    /\ ReturnedList(client.list_runs)
    /\ client.list_runs[2][2] = <<>>
    /\ result = ErrorPayload(Text(<<"No runs found for project_name: ", "N", "o", "n", "e">>))

C16_RunWitness ==
    /\ Called("fetch_trace_tool")
    /\ args.project_name = Text(<<"a">>)
    /\ ReturnedList(client.list_runs)
    /\ Len(client.list_runs[2][2]) = 2
    /\ Keys(result) # {"error"}
    /\ Items(result)["trace_id"] = Text(<<"r">>)
    /\ Items(result)["total_cost"] = Text(<<"1">>)

----------------------------------------------------------------------------
(* src/examples/test_rules.py *)

\* The only response a finished list_rules or get_rule_by_id received
OnlyResponse == client[1]

Answered(status_codes) ==
    /\ OnlyResponse[1] = "return"
    /\ OnlyResponse[2].status_code \in status_codes

ListedRules == OnlyResponse[2].json

\* C17: get_rule_by_id(rule_id) issues exactly one list request, whose id
\* filter is the one-element list [rule_id]. When the request returns an
\* empty list, the function prints that no rule was found for rule_id and
\* returns None, having made no other request; when the list is not empty it
\* returns the first element.
C17_GetRuleById ==
    (tool = "get_rule_by_id" /\ pc # "ready") =>
        /\ Len(calls) = 1
        /\ calls[1].method = "requests.get"
        /\ calls[1].kwargs.params = Dict([id |-> List(<<args.rule_id>>)])
        /\ (Answered({HttpOk}) /\ ListedRules = List(<<>>)) =>
              /\ pc = "returned"
              /\ result = None
              /\ output = <<Text(<<"No rule found with id: ">> \o StrTokens(args.rule_id))>>
        /\ (Answered({HttpOk}) /\ TypeOf(ListedRules) = "list" /\ ListedRules # List(<<>>)) =>
              /\ pc = "returned"
              /\ result = ListedRules[2][1]

C17_Witness ==
    /\ tool = "get_rule_by_id"
    /\ pc = "returned"
    /\ args.rule_id = Text(<<"abc123">>)
    /\ Answered({HttpOk})
    /\ ListedRules = List(<<>>)
    /\ result = None

C17_FirstWitness ==
    /\ tool = "get_rule_by_id"
    /\ pc = "returned"
    /\ Answered({HttpOk})
    /\ TypeOf(ListedRules) = "list"
    /\ Len(ListedRules[2]) = MaxRules
    /\ result = ListedRules[2][1]

\* C18: list_rules raises a RuntimeError whose message embeds the status
\* code and the response text for every response whose status is not 200,
\* and returns a value only for a response of status 200, the value being
\* the parsed JSON body.
C18_ListRulesStatus ==
    (tool = "list_rules" /\ pc # "ready" /\ OnlyResponse[1] = "return") =>
        /\ ~Answered({HttpOk}) =>
              /\ pc = "raised"
              /\ result = Text(<<"List rules failed: ">>
                               \o DecimalTokens(OnlyResponse[2].status_code)
                               \o <<" ">> \o OnlyResponse[2].text[2])
        /\ pc = "returned" => Answered({HttpOk}) /\ result = ListedRules

C18_Witness ==
    /\ tool = "list_rules"
    /\ pc = "raised"
    /\ Answered({204})
    /\ result = Text(<<"List rules failed: ", "2", "0", "4", " ", "denied">>)

C18_OkWitness ==
    /\ tool = "list_rules"
    /\ pc = "returned"
    /\ Answered({HttpOk})
    /\ result = ListedRules
    /\ result # List(<<>>)

\* C19: every example script ends with exit status zero whatever its remote
\* calls did; here, the rules script.
C19_ScriptsExitZero ==
    (tool = "test_rules.__main__" /\ pc = "exited") => result = PyInt(0)

----------------------------------------------------------------------------
(* src/examples/datasets_annotation.py: test_datasets_operations *)

InDatasetPhase == tool = "test_datasets_operations" /\ pc # "ready"

Recorded(key) == InDatasetPhase /\ key \in DOMAIN Phase(result, "datasets")

\* test-dataset-<8 hex chars>
ScratchPattern(name) ==
    /\ TypeOf(name) = "str"
    /\ Len(name[2]) = 9
    /\ name[2][1] = "test-dataset-"
    /\ \A i \in 2..9 :
          name[2][i] \in {"0", "1", "2", "3", "4", "5", "6", "7", "8", "9",
                          "a", "b", "c", "d", "e", "f"}

\* C20: in the dataset phase, when the creation of the dataset named
\* test-dataset-<8 hex chars> with the key-value type has succeeded, the
\* read step reads by the identifier creation returned, and the read result
\* it records has the dataset_name that was passed at creation (the service
\* stores what was created).
C20_ReadBackCreatedName ==
    Recorded("create") =>
        /\ calls[2].method = "create_dataset"
        /\ ScratchPattern(calls[2].kwargs.dataset_name)
        /\ calls[2].kwargs.data_type = Text(<<"kv">>)
        /\ pc # "read" =>
              /\ calls[3] = Call("read_dataset",
                                 [dataset_id |-> Attr(args.new_dataset, "id")])
              /\ Str(Attr(args.new_dataset, "id")) = Items(Phase(result, "datasets")["create"])["dataset_id"]
        /\ Recorded("read") =>
              Items(Phase(result, "datasets")["read"])["dataset_name"] = calls[2].kwargs.dataset_name

C20_Witness ==
    /\ Recorded("read")
    /\ Len(client.store) > 1
    /\ Items(Phase(result, "datasets")["read"])["dataset_name"] =
           ScratchName(<<"d", "e", "a", "d", "b", "e", "e", "f">>)
    /\ Items(Phase(result, "datasets")["read"])["description"] =
           Text(<<"Test dataset created by API testing script">>)

----------------------------------------------------------------------------
(* fetch_run_tool: the child-run block; client calls of the tools *)

\* C28: a mapping returned by fetch_run_tool that has a child_runs_error
\* field has the empty list as child_runs and 0 as child_run_count.
C28_ChildErrorMeansNoChildren ==
    (Called("fetch_run_tool") /\ "child_runs_error" \in Keys(result)) =>
        /\ Items(result)["child_runs"] = List(<<>>)
        /\ Items(result)["child_run_count"] = PyInt(0)

MethodsCalled(method) == {i \in 1..Len(calls) : calls[i].method = method}

\* C29: fetch_run_tool calls read_run at most once and list_runs at most
\* once, the latter only after read_run has returned a run; each of the
\* other tools makes at most one client call; the only client operations
\* called are read_run, list_runs, get_run_stats, list_datasets and
\* list_examples.
C29_ClientCalls ==
    pc # "ready" =>
        /\ \A i \in 1..Len(calls) :
              calls[i].method \in {"read_run", "list_runs", "get_run_stats",
                                   "list_datasets", "list_examples"}
        /\ tool # "fetch_run_tool" => Len(calls) <= 1
        /\ tool = "fetch_run_tool" =>
              /\ Cardinality(MethodsCalled("read_run")) <= 1
              /\ Cardinality(MethodsCalled("list_runs")) <= 1
              /\ Len(calls) <= 2
              /\ MethodsCalled("list_runs") # {} =>
                    /\ MethodsCalled("read_run") = {1}
                    /\ MethodsCalled("list_runs") = {2}
                    /\ client.read_run[1] = "return"
                    /\ Truthy(client.read_run[2])

C29_Witness ==
    /\ Called("fetch_run_tool")
    /\ client.read_run[1] = "return"
    /\ client.list_runs[1] = "raise"
    /\ Len(calls) = 2
    /\ calls[1].method = "read_run"
    /\ calls[2].method = "list_runs"

C29_FailedReadWitness ==
    /\ Called("fetch_run_tool")
    /\ client.read_run[1] = "raise"
    /\ Len(calls) = 1

----------------------------------------------------------------------------
(* test_datasets_operations: failures; the rules entry point *)

DatasetStepKeys ==
    <<"list_existing", "create", "read", "exists", "versions", "splits",
      "update_tag", "delete">>

DatasetStepCalls ==
    <<"list_datasets", "create_dataset", "read_dataset", "has_dataset",
      "list_dataset_versions", "list_dataset_splits", "update_dataset_tag",
      "delete_dataset">>

FirstKeys(n) == {DatasetStepKeys[i] : i \in 1..n}

\* The steps executed so far are steps 1..Len(calls), each having made its
\* one call
StepsExecuted ==
    /\ Len(calls) \in 1..8
    /\ \A i \in 1..Len(calls) : calls[i].method = DatasetStepCalls[i]

DatasetFailureRecorded ==
    InDatasetPhase =>
        /\ StepsExecuted
        /\ IF "error" \in DOMAIN Phase(result, "datasets")
           THEN /\ pc = "returned"
                /\ DOMAIN Phase(result, "datasets") = FirstKeys(Len(calls) - 1) \cup {"error"}
                /\ TypeOf(Phase(result, "datasets")["error"]) = "str"
                /\ Phase(result, "datasets")["error"][2][1] = "Dataset operations failed: "
           ELSE /\ DOMAIN Phase(result, "datasets") = FirstKeys(Len(calls))
                /\ pc = "returned" <=> Len(calls) = 8

SubResultsKept ==
    (InDatasetPhase /\ tool' = tool) =>
        \A key \in DOMAIN Phase(result, "datasets") :
            /\ key \in DOMAIN Phase(result', "datasets")
            /\ Phase(result', "datasets")[key] = Phase(result, "datasets")[key]

\* C22: in the dataset phase, a failure at step k means that no step after k
\* is executed, that one error string is recorded under "error", and that
\* the sub-results of steps 1..k-1 are still present and unchanged in the
\* returned mapping; when no step fails there is no "error" key.
C22_DatasetFailure == []DatasetFailureRecorded /\ [][SubResultsKept]_vars

C22_Witness ==
    /\ Recorded("error")
    /\ Len(calls) = 5
    /\ DOMAIN Phase(result, "datasets") =
           {"list_existing", "create", "read", "exists", "error"}
    /\ Phase(result, "datasets")["error"] =
           Text(<<"Dataset operations failed: ", "object has no attribute 'id'">>)

C22_NoFailureWitness ==
    /\ InDatasetPhase
    /\ pc = "returned"
    /\ DOMAIN Phase(result, "datasets") = FirstKeys(8)

\* C26: in the rules entry point, for every list the name-filtered listing
\* returns, each rule is printed as "<id> :: <display_name>" in listing
\* order, and get_rule_by_id is then called once, with the id of the last
\* rule of the listing, the selected id being defined.
C26_SelectsLastListed ==
    (tool = "test_rules.__main__" /\ pc = "exited" /\ "rules" \in DOMAIN args) =>
        /\ Len(calls) = 2
        /\ "rule_id" \in DOMAIN args
        /\ args.rule_id = Items(args.rules[2][Len(args.rules[2])])["id"]
        /\ calls[2].kwargs.params = Dict([id |-> List(<<args.rule_id>>)])
        /\ \A i \in 1..Len(args.rules[2]) :
              output[i + 1] =
                  Text(StrTokens(Items(args.rules[2][i])["id"]) \o <<" :: ">> \o
                       StrTokens(IF "display_name" \in Keys(args.rules[2][i])
                                 THEN Items(args.rules[2][i])["display_name"]
                                 ELSE None))

----------------------------------------------------------------------------
(* The scripts' definitions of the tools against the tool module's *)

SameOutcome(outcome) ==
    /\ pc = (IF outcome.kind = "raise" THEN "raised" ELSE "returned")
    /\ result = outcome.value
    /\ calls = outcome.calls

\* C27: the fetch_trace_tool of fetch_trace.py and the one of the traces
\* tool module, and likewise the two get_project_runs_stats_tool, make the
\* same client calls with the same arguments and return equal mappings, for
\* every (project_name, trace_id) and every behaviour of the client.
C27_SameAsToolModule ==
    /\ Called("fetch_trace.fetch_trace_tool") =>
          SameOutcome(fetch_trace_tool(client, args.project_name, args.trace_id))
    /\ Called("get_run_stats.get_project_runs_stats_tool") =>
          SameOutcome(get_project_runs_stats_tool(client, args.project_name, args.trace_id))

C27_Witness ==
    /\ Called("fetch_trace.fetch_trace_tool")
    /\ args.trace_id = Null
    /\ Truthy(args.project_name)
    /\ client.list_runs[1] = "return"
    /\ TypeOf(client.list_runs[2]) = "list"
    /\ Len(client.list_runs[2][2]) = MaxRuns
    /\ "trace_id" \in Keys(result)
    /\ Len(calls) = 1

C27_StatsWitness ==
    /\ Called("get_run_stats.get_project_runs_stats_tool")
    /\ Len(calls) = 1
    /\ "run_count" \in Keys(result)
    /\ Items(result)["project_name"] # args.project_name

----------------------------------------------------------------------------
(* test_examples_operations *)

InExamplePhase == tool = "test_examples_operations" /\ pc # "ready"

\* The call of that method was made and the service failed it
CallFailed(method) ==
    \E i \in 1..Len(calls) : calls[i].method = method /\ client.answers[i][1] = "raise"

LastCall == calls[Len(calls)]

CaughtLocally(method, key) ==
    CallFailed(method) =>
        /\ key \in DOMAIN Phase(result, "examples")
        /\ Phase(result, "examples")[key] =
               Dict([success |-> Bool(FALSE), error |-> RemoteError])

ExampleFailuresRecorded ==
    InExamplePhase =>
        /\ Len(client.answers) = Len(calls)
        /\ CaughtLocally("update_example", "update")
        /\ CaughtLocally("create_examples", "create_bulk")
        /\ \A i \in 1..Len(calls) :
              (client.answers[i][1] = "raise"
               /\ calls[i].method \notin {"update_example", "create_examples"}) =>
                  /\ i = Len(calls)
                  /\ pc = "returned"
                  /\ "error" \in DOMAIN Phase(result, "examples")
        /\ "error" \in DOMAIN Phase(result, "examples") =>
              /\ pc = "returned"
              /\ client.answers[Len(calls)][1] = "raise"
              /\ LastCall.method \notin {"update_example", "create_examples"}
              /\ Phase(result, "examples")["error"] =
                     Text(<<"Example operations failed: ", "remote failure">>)
              /\ Len(calls) > 1 => client.store = <<args.dataset>>
        /\ (pc = "returned" /\ "error" \notin DOMAIN Phase(result, "examples")) =>
              /\ LastCall = Call("delete_dataset", [dataset_id |-> Attr(args.dataset, "id")])
              /\ client.store = <<>>
              /\ Truthy(args.examples) =>
                    calls[Len(calls) - 1] =
                        Call("delete_example",
                             [example_id |-> Attr(args.examples[2][1], "id")])

ExamplePhaseGoesOn ==
    InExamplePhase =>
        /\ pc = "update" => pc' = "create_bulk"
        /\ pc = "create_bulk" => pc' = "delete_single"
        /\ pc = "delete_single" =>
              IF Truthy(args.examples)
              THEN calls' = Append(calls, Call("delete_example",
                                [example_id |-> Attr(args.examples[2][1], "id")]))
              ELSE pc' = "cleanup" /\ calls' = calls
        /\ pc = "cleanup" =>
              calls' = Append(calls, Call("delete_dataset",
                                          [dataset_id |-> Attr(args.dataset, "id")]))

\* C23: in the example phase, once the scratch dataset is created, a failure
\* of the update step (6) or of the bulk-create step (7) is recorded as a
\* success:false sub-result and the phase goes on: the next steps delete the
\* first listed example (when one was listed) and then the scratch dataset.
\* A failure of any other step (1-5 or 8) ends the phase with an error
\* recorded, and the scratch dataset has not been deleted.
C23_ExamplePhaseFailures == []ExampleFailuresRecorded /\ [][ExamplePhaseGoesOn]_vars

C23_Witness ==
    /\ InExamplePhase
    /\ pc = "returned"
    /\ CallFailed("update_example")
    /\ CallFailed("create_examples")
    /\ "error" \notin DOMAIN Phase(result, "examples")
    /\ calls[Len(calls) - 1].method = "delete_example"
    /\ LastCall.method = "delete_dataset"
    /\ client.store = <<>>

C23_AbortWitness ==
    /\ InExamplePhase
    /\ CallFailed("delete_example")
    /\ "error" \in DOMAIN Phase(result, "examples")
    /\ client.store # <<>>

(* test_annotation_queues_operations *)

InQueuePhase == tool = "test_annotation_queues_operations" /\ pc # "ready"

QueuePhase == Phase(result, "annotation_queues")

\* Steps 1-3 succeeded: the queue was created and read back
QueueCreatedAndRead == InQueuePhase /\ {"create", "read"} \subseteq DOMAIN QueuePhase

\* The step left a sub-result with success true or false, and a failure
\* carries a reason or an error
SubResultRecorded(key) ==
    /\ key \in DOMAIN QueuePhase
    /\ "success" \in Keys(QueuePhase[key])
    /\ Items(QueuePhase[key])["success"] \in {Bool(TRUE), Bool(FALSE)}
    /\ Items(QueuePhase[key])["success"] = Bool(FALSE) =>
          \/ "error" \in Keys(QueuePhase[key])
          \/ "reason" \in Keys(QueuePhase[key])

\* The projects were listed, and every listing with that limit of the runs
\* of a project failed or was empty (none when there is no project)
NoRunsProbed(limit) ==
    /\ \E i \in 1..Len(calls) :
          calls[i].method = "list_projects" /\ client.answers[i][1] = "return"
    /\ \A i \in 1..Len(calls) :
          (calls[i].method = "list_runs" /\ calls[i].kwargs.limit = PyInt(limit)) =>
              \/ client.answers[i][1] = "raise"
              \/ client.answers[i][2] = List(<<>>)

QueueSteps == <<"update", "add_runs", "get_runs", "delete_run", "delete", "returned">>

QueueStepsRecorded ==
    QueueCreatedAndRead =>
        /\ Len(client.answers) = Len(calls)
        /\ \E n \in 1..Len(QueueSteps) :
              /\ pc = QueueSteps[n]
              /\ \A k \in 1..4 : k < n <=> QueueSteps[k] \in DOMAIN QueuePhase
              /\ \A k \in 1..4 : k < n => SubResultRecorded(QueueSteps[k])
        /\ (CallFailed("update_annotation_queue") /\ pc # "update") =>
              QueuePhase["update"] = Dict([success |-> Bool(FALSE), error |-> RemoteError])
        /\ (CallFailed("get_run_from_annotation_queue") /\ pc # "get_runs") =>
              QueuePhase["get_runs"] = Dict([success |-> Bool(FALSE), error |-> RemoteError])
        /\ (CallFailed("add_runs_to_annotation_queue") /\ pc # "add_runs") =>
              QueuePhase["add_runs"] = Dict([success |-> Bool(FALSE), error |-> RemoteError])
        /\ (CallFailed("delete_run_from_annotation_queue") /\ pc # "delete_run") =>
              QueuePhase["delete_run"] = Dict([success |-> Bool(FALSE), error |-> RemoteError])
        /\ ("add_runs" \in DOMAIN QueuePhase /\ NoRunsProbed(5)) =>
              QueuePhase["add_runs"] =
                  Dict([success |-> Bool(FALSE),
                        reason |-> Text(<<"No existing runs found in the system">>)])
        /\ ("delete_run" \in DOMAIN QueuePhase /\ NoRunsProbed(1)) =>
              QueuePhase["delete_run"] =
                  Dict([success |-> Bool(FALSE),
                        reason |-> Text(<<"No runs available to delete">>)])
        /\ ("delete_run" \in DOMAIN QueuePhase /\ CallFailed("list_projects")) =>
              /\ Items(QueuePhase["delete_run"])["success"] = Bool(FALSE)
              /\ "error" \in Keys(QueuePhase["delete_run"])
        /\ "error" \in DOMAIN QueuePhase =>
              /\ pc = "returned"
              /\ LastCall.method = "delete_annotation_queue"
              /\ client.answers[Len(calls)][1] = "raise"
        /\ pc = "returned" =>
              LastCall = Call("delete_annotation_queue",
                              [queue_id |-> Attr(args.new_queue, "id")])

QueuePhaseGoesOn ==
    QueueCreatedAndRead =>
        /\ \A n \in 1..4 : pc = QueueSteps[n] => pc' = QueueSteps[n + 1]
        /\ pc = "delete" =>
              calls' = Append(calls, Call("delete_annotation_queue",
                                          [queue_id |-> Attr(args.new_queue, "id")]))

\* C24: in the annotation-queue phase, once the queue has been created and
\* read back, each of the steps update, add runs, get run at index 0 and
\* delete run leaves a sub-result with success true or false and the next
\* step follows; no projects or no runs gives a recorded reason, a failed
\* listing of the projects is recorded and not raised, and the deletion of
\* the queue is always called afterwards.
C24_QueueStepsIsolated == []QueueStepsRecorded /\ [][QueuePhaseGoesOn]_vars

\* Every one of steps 4-7 failed, the projects could not be listed, and the
\* queue was deleted all the same
C24_Witness ==
    /\ QueueCreatedAndRead
    /\ pc = "returned"
    /\ CallFailed("update_annotation_queue")
    /\ CallFailed("list_projects")
    /\ CallFailed("get_run_from_annotation_queue")
    /\ \A k \in 1..4 : Items(QueuePhase[QueueSteps[k]])["success"] = Bool(FALSE)
    /\ "error" \notin DOMAIN QueuePhase
    /\ "delete" \in DOMAIN QueuePhase

\* No project has runs: both probing steps record their reason
C24_NoRunsWitness ==
    /\ QueueCreatedAndRead
    /\ pc = "returned"
    /\ NoRunsProbed(5)
    /\ NoRunsProbed(1)
    /\ MethodsCalled("list_runs") # {}
    /\ "reason" \in Keys(QueuePhase["add_runs"])
    /\ "reason" \in Keys(QueuePhase["delete_run"])

(* test_dataset_advanced_operations *)

InAdvancedPhase == tool = "test_dataset_advanced_operations" /\ pc # "ready"

AdvancedPhase == Phase(result, "advanced_datasets")

BothUploaded == InAdvancedPhase /\ {"csv_upload", "dataframe_upload"} \subseteq DOMAIN AdvancedPhase

AdvancedSteps == <<"share", "read_shared", "unshare", "versioning", "cleanup", "returned">>

AdvancedMethods == <<"share_dataset", "read_shared_dataset", "unshare_dataset", "list_dataset_versions">>

\* The tokens the answer to share_dataset carries
TokensYielded ==
    {v \in UNION {{client.answers[i][2][2][k] : k \in DOMAIN client.answers[i][2][2]} :
                    i \in {j \in MethodsCalled("share_dataset") :
                              /\ client.answers[j][1] = "return"
                              /\ TypeOf(client.answers[j][2]) \in {"object", "dict"}}} :
        Truthy(v)}

DeleteOf(dataset) == Call("delete_dataset", [dataset_id |-> Attr(dataset, "id")])

AdvancedFailuresRecorded ==
    InAdvancedPhase =>
        /\ Len(client.answers) = Len(calls)
        \* a failed upload is the last call and leaves the phase error only
        /\ \A i \in 1..Len(calls) :
              (calls[i].method \in {"upload_csv", "upload_dataframe"}
               /\ client.answers[i][1] = "raise") =>
                  /\ i = Len(calls)
                  /\ pc = "returned"
                  /\ "error" \in DOMAIN AdvancedPhase
                  /\ AdvancedPhase["error"] =
                         Text(<<"Advanced dataset operations failed: ", "remote failure">>)
                  /\ DOMAIN AdvancedPhase \subseteq {"csv_upload", "error"}
        /\ BothUploaded =>
              /\ \E n \in 1..Len(AdvancedSteps) :
                    /\ pc = AdvancedSteps[n]
                    /\ \A k \in 1..4 : k < n <=> AdvancedSteps[k] \in DOMAIN AdvancedPhase
              /\ \A k \in 1..4 :
                    CallFailed(AdvancedMethods[k]) =>
                        AdvancedPhase[AdvancedSteps[k]] =
                            Dict([success |-> Bool(FALSE), error |-> RemoteError])
              /\ \A i \in MethodsCalled("read_shared_dataset") :
                    /\ ~CallFailed("share_dataset")
                    /\ calls[i].kwargs.share_token \in TokensYielded
                    /\ calls[i].kwargs.share_token =
                           Items(AdvancedPhase["share"])["share_token"]
              /\ ("read_shared" \in DOMAIN AdvancedPhase
                  /\ MethodsCalled("read_shared_dataset") = {}) =>
                    /\ AdvancedPhase["read_shared"] =
                           Dict([success |-> Bool(FALSE),
                                 error |-> Text(<<"No share token available">>)])
                    /\ \/ CallFailed("share_dataset")
                       \/ ~Truthy(Items(AdvancedPhase["share"])["share_token"])
              /\ pc = "returned" =>
                    \E i \in 1..Len(calls) :
                        /\ calls[i] = DeleteOf(args.csv_dataset)
                        /\ IF client.answers[i][1] = "raise"
                           THEN i = Len(calls) /\ "error" \in DOMAIN AdvancedPhase
                           ELSE /\ i + 1 = Len(calls)
                                /\ LastCall = DeleteOf(args.df_dataset)
                                /\ "error" \in DOMAIN AdvancedPhase <=>
                                       client.answers[Len(calls)][1] = "raise"

AdvancedPhaseGoesOn ==
    BothUploaded =>
        /\ \A n \in 1..4 : pc = AdvancedSteps[n] => pc' = AdvancedSteps[n + 1]
        /\ pc = "cleanup" =>
              /\ Len(calls') > Len(calls)
              /\ SubSeq(calls', 1, Len(calls) + 1) =
                     Append(calls, DeleteOf(args.csv_dataset))

\* C25: in the advanced-dataset phase, when both uploads succeeded, a
\* failure of sharing, reading the shared dataset, unsharing or versioning
\* is recorded as success:false and the next step follows, up to the
\* deletion of the CSV dataset and then of the dataframe dataset;
\* read_shared_dataset is called only with a token the share result
\* yielded, and "No share token available" is recorded otherwise; a failed
\* upload is the last call of the phase and leaves only the phase error.
C25_AdvancedFailures == []AdvancedFailuresRecorded /\ [][AdvancedPhaseGoesOn]_vars

\* Sharing, unsharing and versioning all failed, and both datasets were
\* deleted
C25_Witness ==
    /\ BothUploaded
    /\ pc = "returned"
    /\ CallFailed("share_dataset")
    /\ CallFailed("unshare_dataset")
    /\ CallFailed("list_dataset_versions")
    /\ MethodsCalled("read_shared_dataset") = {}
    /\ "error" \notin DOMAIN AdvancedPhase
    /\ LastCall = DeleteOf(args.df_dataset)

\* Sharing returned without a token, and the shared dataset was not read
C25_NoTokenWitness ==
    /\ BothUploaded
    /\ pc = "returned"
    /\ ~CallFailed("share_dataset")
    /\ TokensYielded = {}
    /\ MethodsCalled("read_shared_dataset") = {}
    /\ Items(AdvancedPhase["read_shared"])["error"] = Text(<<"No share token available">>)

\* The shared dataset was read with the token, and the read failed
C25_ReadFailedWitness ==
    /\ BothUploaded
    /\ pc = "returned"
    /\ CallFailed("read_shared_dataset")
    /\ "error" \notin DOMAIN AdvancedPhase

\* The dataframe upload failed
C25_AbortWitness ==
    /\ InAdvancedPhase
    /\ CallFailed("upload_dataframe")
    /\ DOMAIN AdvancedPhase = {"csv_upload", "error"}

(* main of datasets_annotation.py *)

InDriver == tool = "datasets_annotation.main" /\ pc # "ready"

PhaseFunctions == [i \in 1..Len(DriverPhases) |-> DriverPhases[i].function]

\* The test functions called so far, in the order of their calls
PhasesCalled == SelectSeq(calls, LAMBDA c : \E i \in 1..4 : c.method = PhaseFunctions[i])

ReportKeys == {"timestamp", "api_key_configured", "datasets", "examples", "annotation_queues", "advanced_datasets"}

\* The phase called i-th recorded an error
PhaseErred(i) == "error" \in DOMAIN Phase(client.answers[i][2], DriverPhases[i].key)

PhasesInOrder ==
    InDriver =>
        /\ Len(PhasesCalled) = args.done
        /\ \A i \in 1..Len(PhasesCalled) :
              /\ calls[i] = Call(PhaseFunctions[i], EmptyItems)
              /\ DriverPhases[i].key \in Keys(result)
              /\ Items(result)[DriverPhases[i].key] =
                     Items(client.answers[i][2])[DriverPhases[i].key]
        /\ {"timestamp", "api_key_configured"} \subseteq Keys(result)
        /\ Items(result)["api_key_configured"] \in {Bool(TRUE), Bool(FALSE)}
        /\ \A i \in MethodsCalled("json.dump") :
              /\ i = Len(calls)
              /\ Len(PhasesCalled) = 4
              /\ Keys(calls[i].kwargs.obj) = ReportKeys
              /\ calls[i].kwargs.obj = result
        /\ pc = "returned" => MethodsCalled("json.dump") # {}

NextPhaseStarted ==
    (InDriver /\ pc = "phases") =>
        /\ args.done < 4
        /\ calls' = Append(calls, Call(PhaseFunctions[args.done + 1], EmptyItems))

\* C21: main calls the four test functions in the order datasets, examples,
\* annotation queues, advanced datasets; the next one is called whatever
\* errors the earlier ones recorded; and the report handed to json.dump
\* holds the four phase keys, the timestamp and the API-key flag.
C21_PhasesInOrder == []PhasesInOrder /\ [][NextPhaseStarted]_vars

\* Every phase recorded an error, and the report was written all the same
C21_Witness ==
    /\ InDriver
    /\ pc = "returned"
    /\ \A i \in 1..4 : PhaseErred(i)
    /\ Keys(result) = ReportKeys
    /\ calls[Len(calls)].method = "json.dump"

====
